---- MODULE Spec2Model ----
(***************************************************************************)
(* A model of the UI layout engine of forte-engine (src/src/ui).           *)
(*                                                                         *)
(* Numbers.  An f32 of pixel space (a length, a coordinate, a percentage,  *)
(* a layer) is a fixed-point integer counting hundredths: 1.0 is 100, 0.5  *)
(* is 50, 0.05 is 5.  Sums and differences are integer sums; a product is  *)
(* Mul.  Every value drawn below is of the form k/4 with pixel lengths     *)
(* that are whole, so each product taken by the code is exact both in f32  *)
(* and in this representation.  Quotients (the encoded instance) are kept  *)
(* as reduced fractions, see Div.                                          *)
(***************************************************************************)
EXTENDS Integers, Sequences, FiniteSets, TLC

VARIABLES
    element,      \* LayoutSpec: the UIElement handed to calculate_position_size
    info,         \* LayoutSpec: the UIRenderInfo of its parent
    ret,          \* LayoutSpec: the value returned by the last call
    elements,     \* Spec: UIEngine.elements, the tree of UIElement
    engine_size,  \* Spec: RenderEngine.size, the window size in pixels
    frame,        \* Spec: what the last UIEngine::update did, element by element
    draws,        \* Spec: what the last UIEngine::render did, draw by draw
    panicked,     \* Spec: whether the last UIEngine::render panicked
    op,           \* Spec: what the application did to the tree in the last frame
    canvas,       \* CanvasSpec: the UICanvas
    created,      \* CanvasSpec: the number of buffers the device has created
    calls,        \* CanvasSpec: the device and queue calls of the last UICanvas call
    texture_cache, \* RenderEngine.texture_cache, a ResourceCache<Texture>
    loads,        \* ResourceSpec: the load calls made on the cache, in order
    inputs,       \* InputSpec, AppSpec: App.inputs, the Inputs of the application
    app_calls,    \* InputSpec, AppSpec: the last call on it, and the calls that made
    light_engine, \* LightSpec: the LightEngine
    light_log,    \* LightSpec: the calls on it, each with the device and queue calls it made
    world,        \* WorldSpec: the nodes the application owns, each with its subtree
    node_log,     \* WorldSpec: the ADDED and REMOVED callbacks called so far
    node_call     \* WorldSpec: the last call of add_child or remove_child

layout_vars == <<element, info, ret>>
tree_vars == <<elements, engine_size, frame, draws, panicked, op>>
canvas_vars == <<canvas, created, calls>>
resource_vars == <<texture_cache, loads>>
input_vars == <<inputs, app_calls>>
light_vars == <<light_engine, light_log>>
node_vars == <<world, node_log, node_call>>
rest_vars == <<resource_vars, input_vars, light_vars, node_vars>>
vars == <<element, info, ret, elements, engine_size, frame, draws, panicked, op,
          canvas, created, calls, texture_cache, loads, inputs, app_calls,
          light_engine, light_log, world, node_log, node_call>>

----------------------------------------------------------------------------
(* Fixed-point helpers                                                     *)

\* n whole units as a fixed-point number
px(n) == n * 100

\* the f32 product a * b
Mul(a, b) == (a * b) \div 100

\* cgmath::Vector2<f32>
Vector2(x, y) == [x |-> x, y |-> y]

\* a plausible slip: the smaller side is taken
f32_max_mut_min(a, b) == IF a <= b THEN a ELSE b

\* f32::max
f32_max(a, b) == IF a >= b THEN a ELSE b

(* A quotient of two f32 is a fraction <<n, d>> in lowest terms with d > 0; *)
(* a division by zero gives <<1, 0>> (inf), <<-1, 0>> (-inf) or <<0, 0>>   *)
(* (NaN), as IEEE 754 has it.                                              *)
Abs(a) == IF a < 0 THEN 0 - a ELSE a

RECURSIVE Gcd(_, _)
Gcd(a, b) == IF b = 0 THEN a ELSE Gcd(b, a % b)

Frac(n, d) ==
    LET g == Gcd(Abs(n), Abs(d))
        sgn == IF d < 0 THEN -1 ELSE 1
    IN  <<(sgn * n) \div g, (sgn * d) \div g>>

NaN == <<0, 0>>
Inf == <<1, 0>>
NegInf == <<-1, 0>>

\* the f32 quotient a / b of two fixed-point numbers
Div(a, b) ==
    IF b # 0 THEN Frac(a, b)
    ELSE IF a = 0 THEN NaN
    ELSE IF a > 0 THEN Inf ELSE NegInf

\* a fixed-point number as a fraction
Real(a) == Frac(a, 100)

\* the f32 literals 0.0, 1.0, -1.0 and 2.0
Zero == <<0, 1>>
One == <<1, 1>>
MinusOne == <<-1, 1>>
Two == <<2, 1>>

\* products and sums of finite fractions
RMul(p, q) == Frac(p[1] * q[1], p[2] * q[2])
RAdd(p, q) == Frac(p[1] * q[2] + q[1] * p[2], p[2] * q[2])
RNeg(p) == <<0 - p[1], p[2]>>

----------------------------------------------------------------------------
(* src/src/ui/style.rs                                                     *)

\* enum Sizing
Auto == [kind |-> "Auto", v |-> 0]
Px(p) == [kind |-> "Px", v |-> p]
PercentWidth(p) == [kind |-> "PercentWidth", v |-> p]
PercentHeight(p) == [kind |-> "PercentHeight", v |-> p]

\* a plausible slip: both percentages taken of the width
size_mut_width_only(self, dimensions) ==
    CASE self.kind = "Auto" -> 0
      [] self.kind = "Px" -> self.v
      [] self.kind = "PercentWidth" -> Mul(dimensions.x, self.v)
      [] self.kind = "PercentHeight" -> Mul(dimensions.x, self.v)

\* a plausible slip: Auto resolved to a sentinel of -1.0 instead of 0.0
size_mut_auto_negative(self, dimensions) ==
    CASE self.kind = "Auto" -> px(-1)
      [] self.kind = "Px" -> self.v
      [] self.kind = "PercentWidth" -> Mul(dimensions.x, self.v)
      [] self.kind = "PercentHeight" -> Mul(dimensions.y, self.v)

\* Sizing::size
size(self, dimensions) ==
    CASE self.kind = "Auto" -> 0
      [] self.kind = "Px" -> self.v
      [] self.kind = "PercentWidth" -> Mul(dimensions.x, self.v)
      [] self.kind = "PercentHeight" -> Mul(dimensions.y, self.v)

\* Sizing::is_set
is_set(self) == self.kind # "Auto"

\* struct Color: the components are f32 in 0..1 that only ever reach the
\* instance record, so they are kept as fractions
Color(red, green, blue, alpha) == [red |-> red, green |-> green, blue |-> blue, alpha |-> alpha]

\* enum PositionSetting
PositionSettings == {"Parent", "Absolute"}

\* Color::default
Color_default == [red |-> One, green |-> One, blue |-> One, alpha |-> One]

\* Color::to_array
to_array(self) == <<self.red, self.green, self.blue, self.alpha>>

\* Style::default (derived: every Sizing Auto, PositionSetting::Parent, rotation 0.0)
Style_default ==
    [position_setting |-> "Parent",
     color |-> Color_default, border_color |-> Color_default,
     left |-> Auto, right |-> Auto, top |-> Auto, bottom |-> Auto,
     border |-> Auto, round |-> Auto,
     width |-> Auto, height |-> Auto,
     rotation |-> 0]

\* a plausible slip: the box of an element turned by a quarter turn is given
\* its width and height exchanged
min_size_mut_rotated(self, display_size) ==
    IF self.rotation \in {px(90), px(270)}
    THEN Vector2(size(self.height, display_size), size(self.width, display_size))
    ELSE Vector2(size(self.width, display_size), size(self.height, display_size))

\* Style::min_size
min_size(self, display_size) ==
    Vector2(size(self.width, display_size), size(self.height, display_size))

\* Style::left_set, right_set, top_set, bottom_set
left_set(self) == is_set(self.left)
right_set(self) == is_set(self.right)
top_set(self) == is_set(self.top)
bottom_set(self) == is_set(self.bottom)

----------------------------------------------------------------------------
(* src/src/ui/elements.rs                                                  *)

\* the contents ui_buffer gives a new buffer: [[0.0; 4]; 7]
ui_buffer == [i \in 1..7 |-> <<Zero, Zero, Zero, Zero>>]

\* UIElement::container
container(style) ==
    [style |-> style, info |-> [kind |-> "Container"], buffer |-> ui_buffer, children |-> <<>>]

\* UIElement::image: an element that shows the texture of the given handle
image(style, texture) ==
    [style |-> style, info |-> [kind |-> "Image", texture |-> texture],
     buffer |-> ui_buffer, children |-> <<>>]

\* UIElement::text: an element that shows a shaped text (the glyph buffer and
\* its colour take no part in update_ui's instance or in render_ui)
text(style) ==
    [style |-> style, info |-> [kind |-> "Text"], buffer |-> ui_buffer, children |-> <<>>]

\* UIElement::min_size
UIElement_min_size(self, display_size) == min_size(self.style, display_size)

----------------------------------------------------------------------------
(* src/src/ui/mod.rs: calculate_position_size                              *)

\* struct UIRenderInfo
UIRenderInfo(position, sz, display_size) ==
    [position |-> position, size |-> sz, display_size |-> display_size]

\* a plausible slip: the free space is not halved
initial_position_mut_no_half(info_, sz) ==
    Vector2(info_.position.x + (info_.size.x - sz.x),
            info_.position.y + (info_.size.y - sz.y))

\* the initial, centred position
initial_position(info_, sz) ==
    Vector2(info_.position.x + Mul(info_.size.x - sz.x, 50),
            info_.position.y + Mul(info_.size.y - sz.y, 50))

\* a plausible slip: the parent's origin is added in both modes
left_position_mut_parent_always(style, info_) ==
    info_.position.x + size(style.left, info_.display_size)

\* the branch taken when left is set
left_position(style, info_) ==
    LET offset == size(style.left, info_.display_size)
    IN  CASE style.position_setting = "Parent" -> info_.position.x + offset
          [] style.position_setting = "Absolute" -> offset

\* a plausible slip: the element's own width is not subtracted
right_position_mut_no_width(style, info_, sz) ==
    LET offset == size(style.right, info_.display_size)
    IN  CASE style.position_setting = "Parent" -> info_.position.x + info_.size.x - offset
          [] style.position_setting = "Absolute" -> info_.display_size.x - offset

\* a plausible slip: Absolute measured from the parent's right edge
right_position_mut_parent_edge(style, info_, sz) ==
    LET offset == size(style.right, info_.display_size)
    IN  info_.position.x + info_.size.x - sz.x - offset

\* the branch taken when right is set and left is not
right_position(style, info_, sz) ==
    LET offset == size(style.right, info_.display_size)
    IN  CASE style.position_setting = "Parent" ->
                info_.position.x + info_.size.x - sz.x - offset
          [] style.position_setting = "Absolute" ->
                info_.display_size.x - sz.x - offset

\* a plausible slip: top measured like left, from the origin upwards
top_position_mut_from_origin(style, info_, sz) ==
    LET offset == size(style.top, info_.display_size)
    IN  CASE style.position_setting = "Parent" -> info_.position.y + offset
          [] style.position_setting = "Absolute" -> offset

\* the branch taken when top is set
top_position(style, info_, sz) ==
    LET offset == size(style.top, info_.display_size)
    IN  CASE style.position_setting = "Parent" ->
                info_.position.y + info_.size.y - sz.y - offset
          [] style.position_setting = "Absolute" ->
                info_.display_size.y - sz.y - offset

\* a plausible slip: only the unconditional assignment of line 237 is kept
bottom_position_mut_offset_only(style, info_) ==
    size(style.bottom, info_.display_size)

\* the branch taken when bottom is set and top is not
bottom_position(style, info_) ==
    LET offset == size(style.bottom, info_.display_size)
    IN  CASE style.position_setting = "Parent" -> info_.position.y + offset
          [] style.position_setting = "Absolute" -> offset

\* a plausible slip: two independent ifs, so that right and bottom win
calculate_position_size_mut_last_wins(element_, info_) ==
    LET sz == UIElement_min_size(element_, info_.display_size)
        initial == initial_position(info_, sz)
        style == element_.style
        x == IF right_set(style) THEN right_position(style, info_, sz)
             ELSE IF left_set(style) THEN left_position(style, info_)
             ELSE initial.x
        y == IF bottom_set(style) THEN bottom_position(style, info_)
             ELSE IF top_set(style) THEN top_position(style, info_, sz)
             ELSE initial.y
    IN  [position |-> Vector2(x, y), size |-> sz]

\* calculate_position_size
calculate_position_size(element_, info_) ==
    LET sz == UIElement_min_size(element_, info_.display_size)
        initial == initial_position(info_, sz)
        style == element_.style
        x == IF left_set(style) THEN left_position(style, info_)
             ELSE IF right_set(style) THEN right_position(style, info_, sz)
             ELSE initial.x
        y == IF top_set(style) THEN top_position(style, info_, sz)
             ELSE IF bottom_set(style) THEN bottom_position(style, info_)
             ELSE initial.y
    IN  [position |-> Vector2(x, y), size |-> sz]

----------------------------------------------------------------------------
(* src/src/math: the model matrix of a Transform                           *)

\* the rotations drawn, in degrees; cosine and sine are exact for them
Degrees == {0, px(90), px(180), px(270)}

\* Quaternion::euler_deg_z: the rotation about z, kept as (cos, sin) of the angle
euler_deg_z(z) ==
    CASE z = 0 -> [cos |-> One, sin |-> Zero]
      [] z = px(90) -> [cos |-> Zero, sin |-> One]
      [] z = px(180) -> [cos |-> MinusOne, sin |-> Zero]
      [] z = px(270) -> [cos |-> Zero, sin |-> MinusOne]

\* Transform::to_mat, translation * rotation * scale, as the four columns
\* that TransformRaw::from_generic stores in model
to_mat(self) ==
    LET c == self.rotation.cos
        s == self.rotation.sin
    IN  << <<RMul(c, self.scale.x), RMul(s, self.scale.x), Zero, Zero>>,
           <<RNeg(RMul(s, self.scale.y)), RMul(c, self.scale.y), Zero, Zero>>,
           <<Zero, Zero, self.scale.z, Zero>>,
           <<self.position.x, self.position.y, self.position.z, One>> >>

----------------------------------------------------------------------------
(* src/src/ui/mod.rs: update_ui                                            *)

\* a plausible slip: y flipped, as for a space whose y grows downwards
ui_transform_mut_y_flipped(element_, info_, position, sz, layer) ==
    LET pos_x == Mul(sz.x, 50) + position.x
        pos_y == Mul(sz.y, 50) + position.y
    IN  [position |-> [x |-> RAdd(RMul(Two, Div(pos_x, info_.display_size.x)), MinusOne),
                       y |-> RAdd(One, RNeg(RMul(Two, Div(pos_y, info_.display_size.y)))),
                       z |-> Real(layer)],
         rotation |-> euler_deg_z(element_.style.rotation),
         scale |-> [x |-> Div(sz.x, info_.display_size.x),
                    y |-> Div(sz.y, info_.display_size.y),
                    z |-> Zero]]

\* the Transform of an element resolved to (position, sz) at a layer
ui_transform(element_, info_, position, sz, layer) ==
    LET pos_x == Mul(sz.x, 50) + position.x
        pos_y == Mul(sz.y, 50) + position.y
    IN  [position |-> [x |-> RAdd(RMul(Two, Div(pos_x, info_.display_size.x)), MinusOne),
                       y |-> RAdd(RMul(Two, Div(pos_y, info_.display_size.y)), MinusOne),
                       z |-> Real(layer)],
         rotation |-> euler_deg_z(element_.style.rotation),
         scale |-> [x |-> Div(sz.x, info_.display_size.x),
                    y |-> Div(sz.y, info_.display_size.y),
                    z |-> Zero]]

\* a plausible slip: the border colour is stored before the fill colour
ui_instance_mut_colors_swapped(element_, info_, position, sz, layer) ==
    LET raw_transform == to_mat(ui_transform(element_, info_, position, sz, layer))
    IN  << raw_transform[1],
           raw_transform[2],
           raw_transform[3],
           raw_transform[4],
           to_array(element_.style.border_color),
           to_array(element_.style.color),
           <<Div(size(element_.style.round, info_.display_size), f32_max(sz.x, sz.y)),
             Div(size(element_.style.border, info_.display_size), f32_max(sz.x, sz.y)),
             Zero,
             Zero>> >>

\* the UIInstance written for an element
ui_instance(element_, info_, position, sz, layer) ==
    LET raw_transform == to_mat(ui_transform(element_, info_, position, sz, layer))
    IN  << raw_transform[1],
           raw_transform[2],
           raw_transform[3],
           raw_transform[4],
           to_array(element_.style.color),
           to_array(element_.style.border_color),
           <<Div(size(element_.style.round, info_.display_size), f32_max(sz.x, sz.y)),
             Div(size(element_.style.border, info_.display_size), f32_max(sz.x, sz.y)),
             Zero,
             Zero>> >>

\* a plausible slip: the children are given the layer of their parent
RECURSIVE update_ui_from_mut_same_layer(_, _, _, _, _)
update_ui_from_mut_same_layer(info_, els, layer, path, i) ==
    IF i > Len(els) THEN <<>>
    ELSE LET element_ == els[i]
             r == calculate_position_size(element_, info_)
             new_info == UIRenderInfo(r.position, r.size, info_.display_size)
             write == [path |-> Append(path, i),
                       position |-> r.position, size |-> r.size, layer |-> layer,
                       offset |-> 0,
                       data |-> ui_instance(element_, info_, r.position, r.size, layer)]
         IN  <<write>>
                 \o update_ui_from_mut_same_layer(new_info, element_.children, layer,
                                                  Append(path, i), 1)
                 \o update_ui_from_mut_same_layer(info_, els, layer, path, i + 1)

\* a plausible slip: an element that resolves to no area ends the descent,
\* and its children are left as they were
RECURSIVE update_ui_from_mut_skips_empty(_, _, _, _, _)
update_ui_from_mut_skips_empty(info_, els, layer, path, i) ==
    IF i > Len(els) THEN <<>>
    ELSE LET element_ == els[i]
             r == calculate_position_size(element_, info_)
             new_info == UIRenderInfo(r.position, r.size, info_.display_size)
             write == [path |-> Append(path, i),
                       position |-> r.position, size |-> r.size, layer |-> layer,
                       offset |-> 0,
                       data |-> ui_instance(element_, info_, r.position, r.size, layer)]
         IN  <<write>>
                 \o (IF r.size = Vector2(0, 0) THEN <<>>
                     ELSE update_ui_from_mut_skips_empty(new_info, element_.children,
                                                         layer - 5, Append(path, i), 1))
                 \o update_ui_from_mut_skips_empty(info_, els, layer, path, i + 1)

\* a plausible slip: the children are given the size of their parent as the
\* display size
RECURSIVE update_ui_from_mut_display_is_parent(_, _, _, _, _)
update_ui_from_mut_display_is_parent(info_, els, layer, path, i) ==
    IF i > Len(els) THEN <<>>
    ELSE LET element_ == els[i]
             r == calculate_position_size(element_, info_)
             new_info == UIRenderInfo(r.position, r.size, r.size)
             write == [path |-> Append(path, i),
                       position |-> r.position, size |-> r.size, layer |-> layer,
                       offset |-> 0,
                       data |-> ui_instance(element_, info_, r.position, r.size, layer)]
         IN  <<write>>
                 \o update_ui_from_mut_display_is_parent(new_info, element_.children,
                                                         layer - 5, Append(path, i), 1)
                 \o update_ui_from_mut_display_is_parent(info_, els, layer, path, i + 1)

\* update_ui from the i-th element of els on: the queue.write_buffer calls it
\* makes, in order, each with the path of the element (the indices from
\* UIEngine.elements down to it), the box it was resolved to and its layer
\* (the TextArea pushed for a Text element is no buffer write and is left out)
RECURSIVE update_ui_from(_, _, _, _, _)
update_ui_from(info_, els, layer, path, i) ==
    IF i > Len(els) THEN <<>>
    ELSE LET element_ == els[i]
             r == calculate_position_size(element_, info_)
             new_info == UIRenderInfo(r.position, r.size, info_.display_size)
             write == [path |-> Append(path, i),
                       position |-> r.position, size |-> r.size, layer |-> layer,
                       offset |-> 0,
                       data |-> ui_instance(element_, info_, r.position, r.size, layer)]
         IN  <<write>>
                 \o update_ui_from(new_info, element_.children, layer - 5, Append(path, i), 1)
                 \o update_ui_from(info_, els, layer, path, i + 1)

\* a plausible slip: a buffer that already holds the record is not written again
update_ui_mut_skip_unchanged(info_, els, layer) ==
    LET writes == update_ui_from(info_, els, layer, <<>>, 1)
        RECURSIVE At(_, _)
        At(l, path) == IF Len(path) = 1 THEN l[path[1]] ELSE At(l[path[1]].children, Tail(path))
    IN  SelectSeq(writes, LAMBDA w : At(els, w.path).buffer # w.data)

\* a plausible slip: the pass does not descend into the children
update_ui_mut_top_level_only(info_, els, layer) ==
    SelectSeq(update_ui_from(info_, els, layer, <<>>, 1), LAMBDA w : Len(w.path) = 1)

\* update_ui
update_ui(info_, els, layer) == update_ui_from(info_, els, layer, <<>>, 1)

\* queue.write_buffer(&element.buffer, 0, data) for the element at path
RECURSIVE write_buffer(_, _, _)
write_buffer(els, path, data) ==
    IF Len(path) = 1 THEN [els EXCEPT ![path[1]].buffer = data]
    ELSE [els EXCEPT ![path[1]].children = write_buffer(@, Tail(path), data)]

\* the element tree after the writes of a pass
RECURSIVE flush(_, _)
flush(els, writes) ==
    IF writes = <<>> THEN els
    ELSE flush(write_buffer(els, Head(writes).path, Head(writes).data), Tail(writes))

\* the paths of all elements of a tree
RECURSIVE Paths(_)
Paths(els) ==
    UNION {{<<i>>} \cup {<<i>> \o q : q \in Paths(els[i].children)} : i \in 1..Len(els)}

\* the element at a path
RECURSIVE ElementAt(_, _)
ElementAt(els, path) ==
    IF Len(path) = 1 THEN els[path[1]]
    ELSE ElementAt(els[path[1]].children, Tail(path))

\* element.children.push(child) for the element at path; elements.push(child)
\* for the empty path
RECURSIVE push(_, _, _)
push(els, path, child) ==
    IF path = <<>> THEN Append(els, child)
    ELSE [els EXCEPT ![path[1]].children = push(@, Tail(path), child)]

\* element.style = style for the element at path
RECURSIVE set_style(_, _, _)
set_style(els, path, style) ==
    IF Len(path) = 1 THEN [els EXCEPT ![path[1]].style = style]
    ELSE [els EXCEPT ![path[1]].children = set_style(@, Tail(path), style)]

\* element.style.rotation = z for the element at path
RECURSIVE set_rotation(_, _, _)
set_rotation(els, path, z) ==
    IF Len(path) = 1 THEN [els EXCEPT ![path[1]].style.rotation = z]
    ELSE [els EXCEPT ![path[1]].children = set_rotation(@, Tail(path), z)]

\* Vec::remove(i) on a Vec<UIElement>: the elements after i move down by one
vec_remove(els, i) == [k \in 1..(Len(els) - 1) |-> IF k < i THEN els[k] ELSE els[k + 1]]

\* the element at path taken out of the child list (or of UIEngine.elements)
\* that holds it, and dropped with its subtree
RECURSIVE remove(_, _)
remove(els, path) ==
    IF Len(path) = 1 THEN vec_remove(els, path[1])
    ELSE [els EXCEPT ![path[1]].children = remove(@, Tail(path))]

----------------------------------------------------------------------------
(* src/src/utils/resources.rs and the texture cache of RenderEngine        *)

\* the path ids textures are loaded by: the blank texture of the UIEngine and
\* three images of the application
PathIds == {"ui.blank", "hero.png", "tree.png", "rock.png"}

\* ResourceCache::hash_path: the FxHasher value of the bytes of the path, a
\* u64.  The hasher folds the path 8 bytes at a time into 64 bits, so it is
\* not one-to-one: there are more 16-character paths (95^16) than values
\* (2^64).  "tree.png" and "rock.png" stand for two paths of equal hash.
hash_path(path) ==
    CASE path = "ui.blank" -> 1
      [] path = "hero.png" -> 2
      [] path = "tree.png" -> 3
      [] path = "rock.png" -> 3

\* Handle::new
Handle(hash) == [hash |-> hash]

\* ResourceCache::new: assets is an empty HashMap
ResourceCache_new == [h \in {} |-> 0]

\* HashMap::insert, as in self.assets.insert(hash, load())
HashMap_insert(assets, hash, value) ==
    [h \in DOMAIN assets \cup {hash} |-> IF h = hash THEN value ELSE assets[h]]

\* ResourceCache::load with a load function that returns loaded: the cache
\* after the call, the handle returned and whether the function was called
load(self, path, loaded) ==
    LET hash == hash_path(path)
    IN  IF hash \in DOMAIN self
        THEN [cache |-> self, handle |-> Handle(hash), ran |-> FALSE]
        ELSE [cache |-> HashMap_insert(self, hash, loaded), handle |-> Handle(hash), ran |-> TRUE]

\* ResourceCache::get: an Option
get(self, handle) ==
    IF handle.hash \in DOMAIN self
    THEN [some |-> TRUE, value |-> self[handle.hash]]
    ELSE [some |-> FALSE]

\* Texture::from_bytes(device, queue, bytes, "diffuse").unwrap()
Texture_from_bytes(bytes) == [label |-> "diffuse", bytes |-> bytes]

\* RenderEngine::create_texture
create_texture(cache, path, bytes) == load(cache, path, Texture_from_bytes(bytes))

\* a plausible slip: a handle that is not in the cache gives the blank texture
texture_mut_falls_back(cache, handle) ==
    IF handle.hash \in DOMAIN cache THEN get(cache, handle)
    ELSE [some |-> TRUE, value |-> Texture_from_bytes("empty.png")]

\* RenderEngine::texture: texture_cache.get(handle), which the caller unwraps
\* (a panic when it is None)
texture(cache, handle) == get(cache, handle)

\* UIEngine.default_texture, the handle UIEngine::create gets from
\* engine.create_texture("ui.blank", include_bytes!("empty.png"))
default_texture == Handle(hash_path("ui.blank"))

\* the texture cache of an engine after UIEngine::create
EngineCache == create_texture(ResourceCache_new, "ui.blank", "empty.png").cache

----------------------------------------------------------------------------
(* src/src/ui/mod.rs: render_ui                                            *)

\* the lookup render_ui makes for the texture of an element: engine.texture
\* for an Image, none for the others, which take the default texture
bound_texture(cache, blank, element_) ==
    IF element_.info.kind = "Image" THEN texture(cache, element_.info.texture)
    ELSE [some |-> TRUE, value |-> blank]

\* a plausible slip: the children of an element are drawn after its later
\* siblings, not before them
RECURSIVE render_ui_from_mut_siblings_first(_, _, _, _, _)
render_ui_from_mut_siblings_first(cache, blank, els, path, i) ==
    IF i > Len(els) THEN [draws |-> <<>>, panicked |-> FALSE]
    ELSE LET element_ == els[i]
             bound == bound_texture(cache, blank, element_)
             draw == [path |-> Append(path, i),
                      texture |-> bound.value,
                      instance |-> element_.buffer,
                      instances |-> <<0, 1>>]
             rest == render_ui_from_mut_siblings_first(cache, blank, els, path, i + 1)
             below == render_ui_from_mut_siblings_first(cache, blank, element_.children,
                                                        Append(path, i), 1)
         IN  IF ~bound.some THEN [draws |-> <<>>, panicked |-> TRUE]
             ELSE IF rest.panicked THEN [draws |-> <<draw>> \o rest.draws, panicked |-> TRUE]
             ELSE [draws |-> <<draw>> \o rest.draws \o below.draws,
                   panicked |-> below.panicked]

\* render_ui from the i-th element of els on, with the default texture blank:
\* the draw_indexed calls it makes, in order, each with the path of the
\* element, the texture bound to group 0, the contents of the element's buffer
\* bound as vertex buffer 1 and the instance range 0..1 of the call, as
\* <<start, end>>; and whether it panicked, on unwrapping the texture of an
\* element, which ends the pass there
RECURSIVE render_ui_from(_, _, _, _, _)
render_ui_from(cache, blank, els, path, i) ==
    IF i > Len(els) THEN [draws |-> <<>>, panicked |-> FALSE]
    ELSE LET element_ == els[i]
             bound == bound_texture(cache, blank, element_)
             draw == [path |-> Append(path, i),
                      texture |-> bound.value,
                      instance |-> element_.buffer,
                      instances |-> <<0, 1>>]
             below == render_ui_from(cache, blank, element_.children, Append(path, i), 1)
             rest == render_ui_from(cache, blank, els, path, i + 1)
         IN  IF ~bound.some THEN [draws |-> <<>>, panicked |-> TRUE]
             ELSE IF below.panicked THEN [draws |-> <<draw>> \o below.draws, panicked |-> TRUE]
             ELSE [draws |-> <<draw>> \o below.draws \o rest.draws,
                   panicked |-> rest.panicked]

\* a plausible slip: the draw list of the frame before is kept and the new
\* draws are added to it
render_ui_mut_keeps_draws(cache, els) ==
    LET blank == texture(cache, default_texture)
        r == render_ui_from(cache, blank.value, els, <<>>, 1)
    IN  [draws |-> draws \o r.draws, panicked |-> r.panicked]

\* UIEngine::render: render_ui with the mesh and the default texture of the
\* UIEngine, both unwrapped from the caches before the call
render_ui(cache, els) ==
    LET blank == texture(cache, default_texture)
    IN  IF ~blank.some THEN [draws |-> <<>>, panicked |-> TRUE]
        ELSE render_ui_from(cache, blank.value, els, <<>>, 1)

----------------------------------------------------------------------------
(* src/src/ui/canvas.rs                                                    *)

\* device.create_buffer_init with the given contents, as the id-th buffer of
\* the device: a buffer of exactly the size of the contents, holding them
create_buffer_init(id, contents) ==
    [id |-> id, size |-> Len(contents), contents |-> contents]

\* queue.write_buffer(buffer, offset, data): the same buffer, with data laid
\* over its contents from offset on (sizes and offsets count UIInstance records)
queue_write_buffer(buffer, offset, data) ==
    [buffer EXCEPT !.contents =
        [k \in 1..buffer.size |->
            IF k > offset /\ k <= offset + Len(data) THEN data[k - offset] ELSE @[k]]]

\* a plausible slip: the canvas starts with a count of 0 whatever it holds
new_with_contents_mut_zero_count(id, contents) ==
    [buffer |-> create_buffer_init(id, contents), cur_size |-> 0]

\* UICanvas::new_with_contents, the buffer being the id-th of the device
new_with_contents(id, contents) ==
    [buffer |-> create_buffer_init(id, contents), cur_size |-> Len(contents)]

\* UICanvas::new
UICanvas_new(id) == new_with_contents(id, <<>>)

\* a plausible slip: the length test compares against the size of the new
\* contents in bytes, so that only an empty canvas is written in place
UICanvas_update_mut_always_create(self, id, contents) ==
    IF self.cur_size = 112 * Len(contents)
    THEN [canvas |-> [self EXCEPT !.buffer = queue_write_buffer(@, 0, contents)],
          calls |-> << [fn |-> "queue.write_buffer", buffer |-> self.buffer.id,
                        offset |-> 0, data |-> contents] >>]
    ELSE [canvas |-> [buffer |-> create_buffer_init(id, contents),
                      cur_size |-> Len(contents)],
          calls |-> << [fn |-> "device.create_buffer_init", buffer |-> id,
                        offset |-> 0, data |-> contents] >>]

\* a plausible slip: the new buffer is created but the count is not stored
UICanvas_update_mut_stale_count(self, id, contents) ==
    IF self.cur_size = Len(contents)
    THEN [canvas |-> [self EXCEPT !.buffer = queue_write_buffer(@, 0, contents)],
          calls |-> << [fn |-> "queue.write_buffer", buffer |-> self.buffer.id,
                        offset |-> 0, data |-> contents] >>]
    ELSE [canvas |-> [self EXCEPT !.buffer = create_buffer_init(id, contents)],
          calls |-> << [fn |-> "device.create_buffer_init", buffer |-> id,
                        offset |-> 0, data |-> contents] >>]

\* UICanvas::update: the canvas after the call and the calls made, id being
\* the id of the next buffer the device creates
UICanvas_update(self, id, contents) ==
    IF self.cur_size = Len(contents)
    THEN [canvas |-> [self EXCEPT !.buffer = queue_write_buffer(@, 0, contents)],
          calls |-> << [fn |-> "queue.write_buffer", buffer |-> self.buffer.id,
                        offset |-> 0, data |-> contents] >>]
    ELSE [canvas |-> [buffer |-> create_buffer_init(id, contents),
                      cur_size |-> Len(contents)],
          calls |-> << [fn |-> "device.create_buffer_init", buffer |-> id,
                        offset |-> 0, data |-> contents] >>]

----------------------------------------------------------------------------
(* src/src/inputs/mod.rs                                                   *)

\* Option
None == [some |-> FALSE]
Some(value) == [some |-> TRUE, value |-> value]

Point2(x, y) == [x |-> x, y |-> y]

\* Inputs::new
Inputs_new ==
    [mouse_position |-> None,
     mouse_scroll_delta |-> None,
     key_codes |-> [k \in {} |-> FALSE],
     keys_just_pressed |-> <<>>,
     keys_just_released |-> <<>>,
     mouse_buttons |-> [b \in {} |-> FALSE],
     mouse_buttons_just_pressed |-> <<>>,
     mouse_buttons_just_released |-> <<>>]

\* EngineInput
MouseMove(position) == [kind |-> "MouseMove", position |-> position]
MouseButton(button, state) == [kind |-> "MouseButton", button |-> button, state |-> state]
MouseWheel(delta) == [kind |-> "MouseWheel", delta |-> delta]
KeyInput(key, state) == [kind |-> "KeyInput", key |-> key, state |-> state]

\* winit's MouseScrollDelta
LineDelta(x, y) == [kind |-> "LineDelta", x |-> x, y |-> y]
PixelDelta(x, y) == [kind |-> "PixelDelta", x |-> x, y |-> y]

\* Inputs::handle_input
handle_input(self, input) ==
    CASE input.kind = "MouseMove" ->
            [self EXCEPT !.mouse_position = Some(input.position)]
      [] input.kind = "MouseButton" /\ input.state = "Pressed" ->
            [self EXCEPT !.mouse_buttons = HashMap_insert(@, input.button, TRUE),
                         !.mouse_buttons_just_pressed = Append(@, input.button)]
      [] input.kind = "MouseButton" /\ input.state = "Released" ->
            [self EXCEPT !.mouse_buttons = HashMap_insert(@, input.button, FALSE),
                         !.mouse_buttons_just_released = Append(@, input.button)]
      [] input.kind = "MouseWheel" ->
            LET delta == IF input.delta.kind = "LineDelta"
                         THEN Point2(Mul(input.delta.x, px(12)), Mul(input.delta.y, px(12)))
                         ELSE Point2(input.delta.x, input.delta.y)
            IN  [self EXCEPT !.mouse_scroll_delta = Some(delta)]
      [] input.kind = "KeyInput" /\ input.state = "Pressed" ->
            [self EXCEPT !.key_codes = HashMap_insert(@, input.key, TRUE),
                         !.keys_just_pressed = Append(@, input.key)]
      [] input.kind = "KeyInput" /\ input.state = "Released" ->
            [self EXCEPT !.key_codes = HashMap_insert(@, input.key, FALSE),
                         !.keys_just_released = Append(@, input.key)]

\* a plausible slip: the list of the keys released is not cleared
reset_mut_keeps_released(self) ==
    [self EXCEPT !.mouse_scroll_delta = None,
                 !.mouse_buttons_just_pressed = <<>>,
                 !.mouse_buttons_just_released = <<>>,
                 !.keys_just_pressed = <<>>]

\* Inputs::reset
reset(self) ==
    [self EXCEPT !.mouse_scroll_delta = None,
                 !.mouse_buttons_just_pressed = <<>>,
                 !.mouse_buttons_just_released = <<>>,
                 !.keys_just_pressed = <<>>,
                 !.keys_just_released = <<>>]

\* Vec::contains
contains(list, x) == \E k \in 1..Len(list) : list[k] = x

\* the getters of Inputs
mouse_position(self) == self.mouse_position
mouse_scroll_delta(self) ==
    IF self.mouse_scroll_delta.some THEN self.mouse_scroll_delta.value ELSE Point2(0, 0)
is_key_down(self, key) == IF key \in DOMAIN self.key_codes THEN self.key_codes[key] ELSE FALSE
is_mouse_button_down(self, button) ==
    IF button \in DOMAIN self.mouse_buttons THEN self.mouse_buttons[button] ELSE FALSE
key_just_pressed(self, key) == contains(self.keys_just_pressed, key)
key_just_released(self, key) == contains(self.keys_just_released, key)
mouse_button_just_pressed(self, button) == contains(self.mouse_buttons_just_pressed, button)
mouse_button_just_released(self, button) == contains(self.mouse_buttons_just_released, button)

----------------------------------------------------------------------------
(* src/src/component_app.rs: the App that create_app! generates            *)

\* App::update, acquired telling whether prepare_render got the surface
\* texture of the frame: the inputs after the call and the calls made
App_update(self_inputs, acquired) ==
    IF acquired
    THEN [inputs |-> reset(self_inputs),
          calls |-> <<"component.update", "prepare_render", "component.render",
                      "finalize_render", "next_frame", "inputs.reset">>]
    ELSE [inputs |-> self_inputs,
          calls |-> <<"component.update", "prepare_render">>]

----------------------------------------------------------------------------
(* src/src/lights/mod.rs (src/crates/lights/src/lib.rs is the same code)   *)

\* LightUniform::new
LightUniform_new(position, color, direction, range, exponent, cutoff) ==
    [position |-> position, color |-> color, range |-> range,
     exponent |-> exponent, direction |-> direction, cutoff |-> cutoff]

\* the light that stands in when there is none
default_light ==
    LightUniform_new(<<0, 0, 0>>, <<0, 0, 0>>, <<px(1), 0, 0>>, 0, 0, px(1000))

\* device.create_bind_group over the three buffers, named by their ids
create_bind_group(light_buffer, light_count_buffer, light_ambient_buffer) ==
    <<light_buffer.id, light_count_buffer.id, light_ambient_buffer.id>>

\* LightEngine::new: the light buffer, the count buffer and the ambient
\* buffer are the first three buffers of the device
LightEngine_new(ambient_light) ==
    LET light_buffer == create_buffer_init(1, <<default_light>>)
        light_count_buffer == create_buffer_init(2, <<1>>)
        light_ambient_buffer == create_buffer_init(3, ambient_light)
    IN  [light_buffer |-> light_buffer,
         light_count_buffer |-> light_count_buffer,
         light_ambient_buffer |-> light_ambient_buffer,
         light_bind_group |-> create_bind_group(light_buffer, light_count_buffer,
                                                light_ambient_buffer),
         lights |-> [id \in {} |-> default_light],
         ambient_color |-> ambient_light,
         last_count |-> 0,
         dirty |-> FALSE]

\* LightEngine::mark_dirty
mark_dirty(self) == [self EXCEPT !.dirty = TRUE]

\* LightEngine::add_light
add_light(self, id, light) == mark_dirty([self EXCEPT !.lights = HashMap_insert(@, id, light)])

\* LightEngine::remove_light
remove_light(self, idx) ==
    mark_dirty([self EXCEPT !.lights = [id \in DOMAIN @ \ {idx} |-> @[id]]])

\* LightEngine::clear_lights
clear_lights(self) == mark_dirty([self EXCEPT !.lights = [id \in {} |-> default_light]])

\* LightEngine::update: the engine after the call and the device and queue
\* calls made; id is the id of the next buffer the device creates and order
\* the order in which self.lights.values() yields the lights, as a sequence
\* of their ids
LightEngine_update(self, id, order) ==
    IF ~self.dirty THEN [engine |-> self, calls |-> <<>>]
    ELSE LET len == Cardinality(DOMAIN self.lights)
             values == [k \in 1..len |-> self.lights[order[k]]]
             lights == IF len < 1 THEN <<default_light>> ELSE values
             count_call == [fn |-> "queue.write_buffer", buffer |-> self.light_count_buffer.id,
                            offset |-> 0, data |-> <<len>>]
             ambient_call == [fn |-> "queue.write_buffer",
                              buffer |-> self.light_ambient_buffer.id,
                              offset |-> 0, data |-> self.ambient_color]
             written == [self EXCEPT
                            !.light_count_buffer = queue_write_buffer(@, 0, <<len>>),
                            !.light_ambient_buffer = queue_write_buffer(@, 0, self.ambient_color)]
         IN  IF self.last_count # len
             THEN LET light_buffer == create_buffer_init(id, lights)
                  IN  [engine |-> [written EXCEPT
                                      !.last_count = len,
                                      !.light_buffer = light_buffer,
                                      !.light_bind_group =
                                          create_bind_group(light_buffer,
                                                            written.light_count_buffer,
                                                            written.light_ambient_buffer)],
                       calls |-> <<count_call, ambient_call,
                                   [fn |-> "device.create_buffer_init", buffer |-> id,
                                    offset |-> 0, data |-> lights],
                                   [fn |-> "device.create_bind_group", buffer |-> id,
                                    offset |-> 0, data |-> <<>>]>>]
             ELSE [engine |-> [written EXCEPT
                                  !.light_buffer = queue_write_buffer(@, 0, lights)],
                   calls |-> <<count_call, ambient_call,
                               [fn |-> "queue.write_buffer", buffer |-> self.light_buffer.id,
                                offset |-> 0, data |-> lights]>>]

\* a LightEngine that was created and not used
LightInit ==
    /\ light_engine = LightEngine_new(<<10, 10, 10>>)
    /\ light_log = <<>>

----------------------------------------------------------------------------
(* src/src/world/mod.rs: the Node that run_world! generates                *)

\* Node { component, ..Default::default() }, with an id to tell the nodes of
\* the model apart (the transform and the dimensions take no part in
\* add_child and remove_child and are left out)
Node_new(id, component) == [id |-> id, component |-> component, children |-> <<>>]

\* a plausible slip: the callbacks of the children are called before the
\* callback of the node
RECURSIVE call_add_recr_each_mut_children_first(_, _)
call_add_recr_each_mut_children_first(nodes, i) ==
    IF i > Len(nodes) THEN <<>>
    ELSE LET self == nodes[i]
         IN  call_add_recr_each_mut_children_first(self.children, 1)
                 \o (IF self.component = "Empty" THEN <<>>
                     ELSE <<[fn |-> "ADDED", node |-> self.id]>>)
                 \o call_add_recr_each_mut_children_first(nodes, i + 1)

\* child.call_add_recr(app) for each child of nodes from the i-th on: the
\* callbacks called, in order (a callback is taken to leave the tree alone)
RECURSIVE call_add_recr_each(_, _)
call_add_recr_each(nodes, i) ==
    IF i > Len(nodes) THEN <<>>
    ELSE LET self == nodes[i]
         IN  (IF self.component = "Empty" THEN <<>>
              ELSE <<[fn |-> "ADDED", node |-> self.id]>>)
                 \o call_add_recr_each(self.children, 1)
                 \o call_add_recr_each(nodes, i + 1)

\* Node::call_add_recr
call_add_recr(self) == call_add_recr_each(<<self>>, 1)

\* child.call_remove_recr(app) for each child of nodes from the i-th on
RECURSIVE call_remove_recr_each(_, _)
call_remove_recr_each(nodes, i) ==
    IF i > Len(nodes) THEN <<>>
    ELSE LET self == nodes[i]
         IN  (IF self.component = "Empty" THEN <<>>
              ELSE <<[fn |-> "REMOVED", node |-> self.id]>>)
                 \o call_remove_recr_each(self.children, 1)
                 \o call_remove_recr_each(nodes, i + 1)

\* Node::call_remove_recr
call_remove_recr(self) == call_remove_recr_each(<<self>>, 1)

\* Node::add_child: the node after the call and the callbacks called
add_child(self, child) ==
    LET children == Append(self.children, child)
    IN  [node |-> [self EXCEPT !.children = children],
         callbacks |-> call_add_recr(children[Len(children)])]

\* Node::remove_child, idx counting from 1
remove_child(self, idx) ==
    [node |-> [self EXCEPT !.children = vec_remove(@, idx)],
     callbacks |-> call_remove_recr(self.children[idx])]

\* the nodes with the node at path replaced by node
RECURSIVE node_put(_, _, _)
node_put(nodes, path, node) ==
    IF Len(path) = 1 THEN [nodes EXCEPT ![path[1]] = node]
    ELSE [nodes EXCEPT ![path[1]].children = node_put(@, Tail(path), node)]

\* an application that owns no node
NodeInit ==
    /\ world = <<>>
    /\ node_log = <<>>
    /\ node_call = [fn |-> "none", created |-> 0]

----------------------------------------------------------------------------
(* The parts of the engine an application leaves alone                     *)

\* the texture cache as UIEngine::create leaves it
ResourceInit ==
    /\ texture_cache = EngineCache
    /\ loads = <<>>

\* the inputs as App::create leaves them
InputInit ==
    /\ inputs = Inputs_new
    /\ app_calls = <<[fn |-> "new"]>>

RestInit == ResourceInit /\ InputInit /\ LightInit /\ NodeInit

----------------------------------------------------------------------------
(* LayoutSpec: one call of calculate_position_size, or of Sizing::size and *)
(* Sizing::is_set on a field of the style, on inputs drawn from the sets   *)
(* below.                                                                  *)

\* the largest edge offset drawn, in steps of 10 pixels
MaxEdgeSteps == 1

\* values drawn for left, right, top and bottom
EdgeValues == {Auto, PercentWidth(25), PercentHeight(25)} \cup {Px(px(10 * k)) : k \in 1..MaxEdgeSteps}

\* values drawn for width and height
SizeValues == {Auto, Px(px(100)), Px(px(-10)), PercentHeight(50)}

\* the fields of Style that hold a Sizing read by calculate_position_size
SizingFields == {"left", "right", "top", "bottom", "width", "height"}

LayoutStyles ==
    {[Style_default EXCEPT !.position_setting = ps,
                           !.left = l, !.right = r, !.top = t, !.bottom = b,
                           !.width = w, !.height = h] :
        ps \in PositionSettings, l \in EdgeValues, r \in EdgeValues,
        t \in EdgeValues, b \in EdgeValues, w \in SizeValues, h \in SizeValues}

\* parent boxes an update pass produces in an 800 x 600 window: the window
\* itself, a 400 x 400 container centred in it, the same container anchored
\* at left 0 and bottom 0, and a container of Auto width and height
LayoutInfos ==
    LET display == Vector2(px(800), px(600))
    IN  {UIRenderInfo(Vector2(0, 0), display, display),
         UIRenderInfo(Vector2(px(200), px(100)), Vector2(px(400), px(400)), display),
         UIRenderInfo(Vector2(0, 0), Vector2(px(400), px(400)), display),
         UIRenderInfo(Vector2(px(400), px(300)), Vector2(0, 0), display)}

NoRet == [fn |-> "none"]

LayoutInit ==
    /\ element \in {container(s) : s \in LayoutStyles}
    /\ info \in LayoutInfos
    /\ ret = NoRet
    /\ elements = <<>>
    /\ engine_size = Vector2(px(800), px(600))
    /\ frame = <<>>
    /\ draws = <<>>
    /\ panicked = FALSE
    /\ op = "create"
    /\ canvas = UICanvas_new(1)
    /\ created = 1
    /\ calls = <<>>
    /\ RestInit

\* let (position, size) = calculate_position_size(element, info)
CallCalculatePositionSize ==
    /\ LET r == calculate_position_size(element, info)
       IN  ret' = [fn |-> "calculate_position_size", position |-> r.position, size |-> r.size]
    /\ UNCHANGED <<element, info, tree_vars, canvas_vars, rest_vars>>

\* element.style.<field>.size(&info.display_size) and .is_set()
CallSize(f) ==
    /\ ret' = [fn |-> "size", field |-> f,
               value |-> size(element.style[f], info.display_size),
               set |-> is_set(element.style[f])]
    /\ UNCHANGED <<element, info, tree_vars, canvas_vars, rest_vars>>

LayoutNext ==
    \/ CallCalculatePositionSize
    \/ \E f \in SizingFields : CallSize(f)

LayoutSpec == LayoutInit /\ [][LayoutNext]_vars

----------------------------------------------------------------------------
(* EncodeSpec: what update_ui does for one element, on an element and the  *)
(* UIRenderInfo of its parent drawn from the sets below: it resolves the   *)
(* element and builds the UIInstance it writes.                            *)

\* the deepest level of the tree an element is encoded at
MaxDepth == 2

\* the layers update_ui is called with down to that level
EncodeLayers == {50 - 5 * d : d \in 0..MaxDepth}

\* styles that vary what the instance is built from: the size (none, 100 x 50,
\* the whole window, and mixtures), the radii, the rotation, the colours and
\* an edge
EncodeStyles ==
    {[Style_default EXCEPT !.width = w, !.height = h, !.round = r, !.border = b,
                           !.rotation = z, !.color = c[1], !.border_color = c[2],
                           !.left = l] :
        w \in {Auto, Px(px(100)), PercentWidth(100)},
        h \in {Auto, Px(px(50)), PercentHeight(100)},
        r \in {Auto, Px(px(20))},
        b \in {Auto, Px(px(5))},
        z \in Degrees,
        c \in {<<Color_default, Color_default>>,
               <<Color(One, Zero, Zero, One), Color(Zero, <<1, 4>>, One, <<1, 2>>)>>},
        l \in {Auto, Px(px(10))}}

EncodeInit ==
    /\ element \in {container(st) : st \in EncodeStyles}
    /\ info \in LayoutInfos
    /\ ret = NoRet
    /\ elements = <<>>
    /\ engine_size = Vector2(px(800), px(600))
    /\ frame = <<>>
    /\ draws = <<>>
    /\ panicked = FALSE
    /\ op = "create"
    /\ canvas = UICanvas_new(1)
    /\ created = 1
    /\ calls = <<>>
    /\ RestInit

\* the body of update_ui for the element, up to the instance it writes
CallUiInstance(layer) ==
    /\ LET r == calculate_position_size(element, info)
       IN  ret' = [fn |-> "ui_instance",
                   position |-> r.position, size |-> r.size, layer |-> layer,
                   data |-> ui_instance(element, info, r.position, r.size, layer)]
    /\ UNCHANGED <<element, info, tree_vars, canvas_vars, rest_vars>>

EncodeNext == \E layer \in EncodeLayers : CallUiInstance(layer)

EncodeSpec == EncodeInit /\ [][EncodeNext]_vars

----------------------------------------------------------------------------
(* Spec: the frames of an application that owns an UIEngine.  In a frame   *)
(* the application's own update changes the element tree (or leaves it),   *)
(* UIEngine::update then runs on the tree as it is, and UIEngine::render   *)
(* draws it in the render pass of the frame.                               *)

\* the largest number of elements in the tree
MaxElements == 3

\* the styles the application gives its elements: a red 400 x 300 box with a
\* border, anchored at left 10 and top 10 of its parent; a rounded 100 x 50
\* box anchored at right 10 and bottom 25% of the window; and the same box
\* turned by 90 degrees
TreeStyles ==
    LET anchored == [Style_default EXCEPT !.position_setting = "Absolute",
                                          !.width = Px(px(100)), !.height = Px(px(50)),
                                          !.right = Px(px(10)), !.bottom = PercentHeight(25),
                                          !.round = Px(px(20))]
    IN  {[Style_default EXCEPT !.width = Px(px(400)), !.height = Px(px(300)),
                               !.left = Px(px(10)), !.top = Px(px(10)),
                               !.border = Px(px(5)),
                               !.color = Color(One, Zero, Zero, One)],
         anchored,
         [anchored EXCEPT !.rotation = px(90)]}

\* the UIRenderInfo UIEngine::update starts from
RootInfo ==
    UIRenderInfo(Vector2(0, 0), Vector2(engine_size.x, engine_size.y),
                 Vector2(engine_size.x, engine_size.y))

\* UIEngine::create: no elements; no update has run
Init ==
    /\ elements = <<>>
    /\ engine_size = Vector2(px(800), px(600))
    /\ frame = <<>>
    /\ draws = <<>>
    /\ panicked = FALSE
    /\ op = "create"
    /\ element = container(Style_default)
    /\ info = UIRenderInfo(Vector2(0, 0), engine_size, engine_size)
    /\ ret = NoRet
    /\ canvas = UICanvas_new(1)
    /\ created = 1
    /\ calls = <<>>
    /\ RestInit

\* UIEngine::update on the tree els, then UIEngine::render
Update(els) ==
    LET writes == update_ui(RootInfo, els, 50)
        written == flush(els, writes)
    IN  /\ frame' = writes
        /\ elements' = written
        /\ draws' = render_ui(texture_cache, written).draws
        /\ panicked' = render_ui(texture_cache, written).panicked
        /\ UNCHANGED <<engine_size, layout_vars, canvas_vars, rest_vars>>

\* a frame in which a new container is pushed to UIEngine.elements (the empty
\* path) or to the children of an element
FramePush(path, style) ==
    /\ Cardinality(Paths(elements)) < MaxElements
    /\ op' = "push"
    /\ Update(push(elements, path, container(style)))

\* a frame in which the style of an element is replaced
FrameSetStyle(path, style) ==
    /\ ElementAt(elements, path).style # style
    /\ op' = "set_style"
    /\ Update(set_style(elements, path, style))

\* a frame in which an element is removed from the list that holds it
FrameRemove(path) ==
    /\ op' = IF ElementAt(elements, path).children = <<>> THEN "remove" ELSE "remove_subtree"
    /\ Update(remove(elements, path))

\* a frame in which the tree is left as it is
FrameIdle ==
    /\ op' = "idle"
    /\ Update(elements)

Next ==
    \/ \E path \in {<<>>} \cup Paths(elements), style \in TreeStyles : FramePush(path, style)
    \/ \E path \in Paths(elements), style \in TreeStyles : FrameSetStyle(path, style)
    \/ \E path \in Paths(elements) : FrameRemove(path)
    \/ FrameIdle

Spec == Init /\ [][Next]_vars

----------------------------------------------------------------------------
(* CanvasSpec: an UICanvas that is created with some contents and then     *)
(* updated, call after call, with contents of any length.                  *)

\* the longest contents handed to the canvas
MaxContents == 2

\* the number of buffers the device creates at most
MaxBuffers == 5

\* the UIInstance an update pass writes for a top-level container of a style
InstanceOf(style) ==
    LET display == Vector2(px(800), px(600))
        root == UIRenderInfo(Vector2(0, 0), display, display)
        r == calculate_position_size(container(style), root)
    IN  ui_instance(container(style), root, r.position, r.size, 50)

\* the instances drawn for the contents
CanvasInstances == {InstanceOf(style) : style \in TreeStyles}

\* the contents drawn: every sequence of at most MaxContents instances
CanvasContents == UNION {[1..n -> CanvasInstances] : n \in 0..MaxContents}

\* UICanvas::new_with_contents (UICanvas::new for the empty contents)
CanvasInit ==
    /\ \E contents \in CanvasContents :
           /\ canvas = new_with_contents(1, contents)
           /\ calls = << [fn |-> "device.create_buffer_init", buffer |-> 1,
                          offset |-> 0, data |-> contents] >>
    /\ created = 1
    /\ elements = <<>>
    /\ engine_size = Vector2(px(800), px(600))
    /\ frame = <<>>
    /\ draws = <<>>
    /\ panicked = FALSE
    /\ op = "create"
    /\ element = container(Style_default)
    /\ info = UIRenderInfo(Vector2(0, 0), engine_size, engine_size)
    /\ ret = NoRet
    /\ RestInit

\* canvas.update(engine, contents)
CanvasUpdate(contents) ==
    /\ (canvas.cur_size # Len(contents)) => created < MaxBuffers
    /\ LET r == UICanvas_update(canvas, created + 1, contents)
       IN  /\ canvas' = r.canvas
           /\ calls' = r.calls
           /\ created' = IF r.calls[1].fn = "device.create_buffer_init"
                         THEN created + 1 ELSE created
    /\ UNCHANGED <<layout_vars, tree_vars, rest_vars>>

CanvasNext == \E contents \in CanvasContents : CanvasUpdate(contents)

CanvasSpec == CanvasInit /\ [][CanvasNext]_vars

----------------------------------------------------------------------------
(* RenderSpec: one UIEngine::render on a tree of containers, images and    *)
(* texts drawn from the set below, with a texture cache that holds the     *)
(* textures of some of the images.                                         *)

\* the state of the parts of the model a specification does not use
LayoutIdle ==
    /\ element = container(Style_default)
    /\ info = UIRenderInfo(Vector2(0, 0), Vector2(px(800), px(600)), Vector2(px(800), px(600)))
    /\ ret = NoRet

CanvasIdle ==
    /\ canvas = UICanvas_new(1)
    /\ created = 1
    /\ calls = <<>>

\* the forests of exactly n elements, each a member of leaves given children
RECURSIVE Forests(_, _)
Forests(n, leaves) ==
    IF n = 0 THEN {<<>>}
    ELSE UNION {{<<[e EXCEPT !.children = below]>> \o rest :
                    e \in leaves, below \in Forests(k - 1, leaves),
                    rest \in Forests(n - k, leaves)} : k \in 1..n}

\* the trees of at most n elements
Trees(n, leaves) == UNION {Forests(k, leaves) : k \in 0..n}

\* the elements of the trees rendered: a container, a text and the images of
\* two handles
RenderLeaves ==
    {container(Style_default), text(Style_default)}
        \cup {image(Style_default, Handle(hash_path(path))) : path \in {"hero.png", "tree.png"}}

\* the texture caches rendered with: the cache of the engine after the
\* application has created none, one or both of the two textures
RenderCaches ==
    LET hero == create_texture(EngineCache, "hero.png", "hero").cache
    IN  {EngineCache, hero,
         create_texture(EngineCache, "tree.png", "tree").cache,
         create_texture(hero, "tree.png", "tree").cache}

RenderInit ==
    /\ elements \in Trees(MaxElements, RenderLeaves)
    /\ texture_cache \in RenderCaches
    /\ loads = <<>>
    /\ engine_size = Vector2(px(800), px(600))
    /\ frame = <<>>
    /\ draws = <<>>
    /\ panicked = FALSE
    /\ op = "create"
    /\ LayoutIdle
    /\ CanvasIdle
    /\ InputInit
    /\ LightInit
    /\ NodeInit

\* ui_engine.render(render_engine, pass)
CallRender ==
    /\ op' = "render"
    /\ draws' = render_ui(texture_cache, elements).draws
    /\ panicked' = render_ui(texture_cache, elements).panicked
    /\ UNCHANGED <<elements, engine_size, frame, layout_vars, canvas_vars, rest_vars>>

RenderNext == CallRender

RenderSpec == RenderInit /\ [][RenderNext]_vars

----------------------------------------------------------------------------
(* PassSpec: the frames of an application that built its tree beforehand,  *)
(* of containers of the styles below, and leaves it alone.                 *)

\* the styles of the trees: the default style, which resolves to no area; the
\* red box and the anchored box of TreeStyles; a box anchored at left 10 and
\* top 10 of the window; and a box of a quarter of the window's width and half
\* of its height, a quarter of the width from the left of its parent
PassStyles ==
    {Style_default,
     [Style_default EXCEPT !.width = Px(px(400)), !.height = Px(px(300)),
                           !.left = Px(px(10)), !.top = Px(px(10)),
                           !.border = Px(px(5)),
                           !.color = Color(One, Zero, Zero, One)],
     [Style_default EXCEPT !.position_setting = "Absolute",
                           !.width = Px(px(100)), !.height = Px(px(50)),
                           !.right = Px(px(10)), !.bottom = PercentHeight(25),
                           !.round = Px(px(20))],
     [Style_default EXCEPT !.position_setting = "Absolute",
                           !.width = Px(px(100)), !.height = Px(px(50)),
                           !.left = Px(px(10)), !.top = Px(px(10))],
     [Style_default EXCEPT !.width = PercentWidth(25), !.height = PercentHeight(50),
                           !.left = PercentWidth(25)]}

PassInit ==
    /\ elements \in Trees(MaxElements, {container(style) : style \in PassStyles})
    /\ engine_size = Vector2(px(800), px(600))
    /\ frame = <<>>
    /\ draws = <<>>
    /\ panicked = FALSE
    /\ op = "create"
    /\ LayoutIdle
    /\ CanvasIdle
    /\ RestInit

PassNext == FrameIdle

PassSpec == PassInit /\ [][PassNext]_vars

----------------------------------------------------------------------------
(* InputSpec: an Inputs that is handed events and reset, in any order.     *)
(* AppSpec: the Inputs of an App, handed the events of the window between  *)
(* calls of App::update.                                                   *)

\* the largest number of events an Inputs holds as just-happened
MaxEvents == 2

KeyCodes == {"KeyW", "Space"}
MouseButtons == {"Left"}
ElementStates == {"Pressed", "Released"}

\* the events of the window
EngineInputs ==
    {MouseMove(Point2(px(400), px(300)))}
        \cup {MouseButton(button, state) : button \in MouseButtons, state \in ElementStates}
        \cup {MouseWheel(LineDelta(0, px(1))), MouseWheel(PixelDelta(0, px(30)))}
        \cup {KeyInput(key, state) : key \in KeyCodes, state \in ElementStates}

\* the number of events held as just-happened
Pending(self) ==
    Len(self.keys_just_pressed) + Len(self.keys_just_released)
        + Len(self.mouse_buttons_just_pressed) + Len(self.mouse_buttons_just_released)
        + (IF self.mouse_scroll_delta.some THEN 1 ELSE 0)

\* an application that has created its engine, and no more
OtherIdle ==
    /\ elements = <<>>
    /\ engine_size = Vector2(px(800), px(600))
    /\ frame = <<>>
    /\ draws = <<>>
    /\ panicked = FALSE
    /\ op = "create"
    /\ LayoutIdle
    /\ CanvasIdle

InputSpecInit == OtherIdle /\ RestInit

\* inputs.handle_input(input), as App::input does for an event of the window
HandleInput(input) ==
    /\ Pending(inputs) < MaxEvents
    /\ inputs' = handle_input(inputs, input)
    /\ app_calls' = <<[fn |-> "handle_input", input |-> input]>>
    /\ UNCHANGED <<layout_vars, tree_vars, canvas_vars, resource_vars, light_vars, node_vars>>

\* inputs.reset()
Reset ==
    /\ inputs' = reset(inputs)
    /\ app_calls' = <<[fn |-> "reset"]>>
    /\ UNCHANGED <<layout_vars, tree_vars, canvas_vars, resource_vars, light_vars, node_vars>>

InputNext ==
    \/ \E input \in EngineInputs : HandleInput(input)
    \/ Reset

InputSpec == InputSpecInit /\ [][InputNext]_vars

\* app.update(), in a frame whose surface texture is acquired or is not
AppUpdate(acquired) ==
    /\ inputs' = App_update(inputs, acquired).inputs
    /\ app_calls' = <<[fn |-> "update", calls |-> App_update(inputs, acquired).calls]>>
    /\ UNCHANGED <<layout_vars, tree_vars, canvas_vars, resource_vars, light_vars, node_vars>>

AppNext ==
    \/ \E input \in EngineInputs : HandleInput(input)
    \/ \E acquired \in BOOLEAN : AppUpdate(acquired)

AppSpec == InputSpecInit /\ [][AppNext]_vars

----------------------------------------------------------------------------
(* ResourceSpec: a ResourceCache of textures, empty at first, on which     *)
(* load is called with any path and any bytes, call after call.            *)

\* the largest number of load calls
MaxLoads == 3

\* the bytes a texture is loaded from
TextureBytes == {"day", "night"}

ResourceSpecInit ==
    /\ texture_cache = ResourceCache_new
    /\ loads = <<>>
    /\ InputInit
    /\ LightInit
    /\ NodeInit
    /\ OtherIdle

\* cache.load(path, || Texture::from_bytes(.., bytes, ..).unwrap())
Load(path, bytes) ==
    /\ Len(loads) < MaxLoads
    /\ LET r == create_texture(texture_cache, path, bytes)
       IN  /\ texture_cache' = r.cache
           /\ loads' = Append(loads, [path |-> path, bytes |-> bytes,
                                      ran |-> r.ran, handle |-> r.handle])
    /\ UNCHANGED <<layout_vars, tree_vars, canvas_vars, input_vars, light_vars, node_vars>>

ResourceNext == \E path \in PathIds, bytes \in TextureBytes : Load(path, bytes)

ResourceSpec == ResourceSpecInit /\ [][ResourceNext]_vars

----------------------------------------------------------------------------
(* LightSpec: a LightEngine on which the application calls add_light,      *)
(* remove_light, clear_lights, mark_dirty and update, in any order.        *)

\* the largest number of calls on the LightEngine
MaxLightCalls == 3

LightIds == {1, 2}

\* a white light at the origin and a red light above it
Lights ==
    {LightUniform_new(<<0, 0, 0>>, <<px(1), px(1), px(1)>>, <<px(1), 0, 0>>, px(10), 0, px(1000)),
     LightUniform_new(<<0, px(5), 0>>, <<px(1), 0, 0>>, <<0, px(-1), 0>>, px(20), px(1), px(1000))}

\* the orders in which a HashMap of the given keys may yield its values
Orders(keys) ==
    {order \in [1..Cardinality(keys) -> keys] :
        \A j, k \in 1..Cardinality(keys) : j # k => order[j] # order[k]}

LightSpecInit == OtherIdle /\ RestInit

\* a call that changes the lights or marks the engine dirty
LightCall(fn, after) ==
    /\ Len(light_log) < MaxLightCalls
    /\ light_engine' = after
    /\ light_log' = Append(light_log, [fn |-> fn, calls |-> <<>>])
    /\ UNCHANGED <<layout_vars, tree_vars, canvas_vars, resource_vars, input_vars, node_vars>>

AddLight(id, light) == LightCall("add_light", add_light(light_engine, id, light))
RemoveLight(idx) == LightCall("remove_light", remove_light(light_engine, idx))
ClearLights == LightCall("clear_lights", clear_lights(light_engine))
MarkDirty == LightCall("mark_dirty", mark_dirty(light_engine))

\* light_engine.update(engine)
LightUpdate(order) ==
    /\ Len(light_log) < MaxLightCalls
    /\ LET id == IF light_engine.light_buffer.id < 4 THEN 4
                 ELSE light_engine.light_buffer.id + 1
           r == LightEngine_update(light_engine, id, order)
       IN  /\ light_engine' = r.engine
           /\ light_log' = Append(light_log, [fn |-> "update", calls |-> r.calls])
    /\ UNCHANGED <<layout_vars, tree_vars, canvas_vars, resource_vars, input_vars, node_vars>>

LightNext ==
    \/ \E id \in LightIds, light \in Lights : AddLight(id, light)
    \/ \E idx \in LightIds : RemoveLight(idx)
    \/ ClearLights
    \/ MarkDirty
    \/ \E order \in Orders(DOMAIN light_engine.lights) : LightUpdate(order)

LightSpec == LightSpecInit /\ [][LightNext]_vars

----------------------------------------------------------------------------
(* WorldSpec: an application that makes nodes, adds a node it owns as a    *)
(* child to a node of another tree it owns, and removes children.          *)

\* the largest number of nodes the application makes
MaxNodes == 3

\* Component::Empty and a variant with callbacks
Components == {"Empty", "CubeModel"}

WorldSpecInit == OtherIdle /\ RestInit

\* let node = Node { component, ..Default::default() }
NodeNew(component) ==
    /\ node_call.created < MaxNodes
    /\ world' = Append(world, Node_new(node_call.created + 1, component))
    /\ node_call' = [fn |-> "new", created |-> node_call.created + 1]
    /\ UNCHANGED node_log
    /\ UNCHANGED <<layout_vars, tree_vars, canvas_vars, resource_vars, input_vars, light_vars>>

\* parent.add_child(app, child) for the k-th node the application owns as
\* child and the node at path, in another of its trees, as parent
AddChild(path, k) ==
    /\ path[1] # k
    /\ LET child == world[k]
           others == vec_remove(world, k)
           at == IF path[1] > k THEN <<path[1] - 1>> \o Tail(path) ELSE path
           r == add_child(ElementAt(others, at), child)
       IN  /\ world' = node_put(others, at, r.node)
           /\ node_log' = node_log \o r.callbacks
           /\ node_call' = [fn |-> "add_child", created |-> node_call.created,
                            parent |-> at, child |-> child, callbacks |-> r.callbacks]
    /\ UNCHANGED <<layout_vars, tree_vars, canvas_vars, resource_vars, input_vars, light_vars>>

\* parent.remove_child(app, idx) for the node at path as parent
RemoveChild(path, idx) ==
    /\ LET parent == ElementAt(world, path)
           r == remove_child(parent, idx)
       IN  /\ world' = node_put(world, path, r.node)
           /\ node_log' = node_log \o r.callbacks
           /\ node_call' = [fn |-> "remove_child", created |-> node_call.created,
                            parent |-> path, child |-> parent.children[idx],
                            callbacks |-> r.callbacks]
    /\ UNCHANGED <<layout_vars, tree_vars, canvas_vars, resource_vars, input_vars, light_vars>>

WorldNext ==
    \/ \E component \in Components : NodeNew(component)
    \/ \E path \in Paths(world), k \in 1..Len(world) : AddChild(path, k)
    \/ \E path \in Paths(world) :
           \E idx \in 1..Len(ElementAt(world, path).children) : RemoveChild(path, idx)

WorldSpec == WorldSpecInit /\ [][WorldNext]_vars

----------------------------------------------------------------------------
(* Claims settled under LayoutSpec                                         *)

Resolved == ret.fn = "calculate_position_size"

\* C1: Sizing resolution against dimensions (width, height) returns Auto -> 0,
\* Px(p) -> p unchanged (negative values included), PercentWidth(p) -> width * p,
\* PercentHeight(p) -> height * p, and is_set() is true for every variant but Auto.
C1_SizingResolution ==
    ret.fn = "size" =>
        LET s == element.style[ret.field]
            d == info.display_size
        IN  /\ s.kind = "Auto" => ret.value = 0
            /\ s.kind = "Px" => ret.value = s.v
            /\ s.kind = "PercentWidth" => ret.value * 100 = d.x * s.v
            /\ s.kind = "PercentHeight" => ret.value * 100 = d.y * s.v
            /\ ret.set = (s.kind # "Auto")

\* a negative pixel width has been resolved and passed through unchanged
C1_Witness ==
    /\ ret.fn = "size"
    /\ ret.field = "width"
    /\ element.style.width = Px(px(-10))
    /\ ret.value = px(-10)
    /\ ret.set

\* C2: on each axis where both edges are Auto the resolved position is
\* parent.origin + (parent.size - size) * 0.5, in Parent and in Absolute mode.
C2_Centering ==
    Resolved =>
        LET st == element.style
        IN  /\ (st.left = Auto /\ st.right = Auto) =>
                   2 * ret.position.x = 2 * info.position.x + (info.size.x - ret.size.x)
            /\ (st.top = Auto /\ st.bottom = Auto) =>
                   2 * ret.position.y = 2 * info.position.y + (info.size.y - ret.size.y)

\* a 100 x 100 Absolute element with no edge set, in a 400 x 400 parent at
\* (0, 0), has been resolved to (150, 150)
C2_Witness ==
    /\ Resolved
    /\ element.style = [Style_default EXCEPT !.position_setting = "Absolute",
                                             !.width = Px(px(100)), !.height = Px(px(100))]
    /\ info.position = Vector2(0, 0)
    /\ info.size = Vector2(px(400), px(400))
    /\ ret.position = Vector2(px(150), px(150))

\* C3: when left is set, position.x is parent.origin.x + left.resolve(display)
\* under Parent and left.resolve(display) under Absolute.
C3_LeftAnchor ==
    (Resolved /\ element.style.left # Auto) =>
        LET offset == size(element.style.left, info.display_size)
        IN  /\ element.style.position_setting = "Parent" =>
                   ret.position.x = info.position.x + offset
            /\ element.style.position_setting = "Absolute" =>
                   ret.position.x = offset

\* an Absolute element with left = Px(10) in a parent whose origin is not 0
\* has been resolved to x = 10
C3_Witness ==
    /\ Resolved
    /\ element.style.position_setting = "Absolute"
    /\ element.style.left = Px(px(10))
    /\ info.position.x = px(200)
    /\ ret.position.x = px(10)

\* C4: when right is set and left is not, position.x is
\* parent.origin.x + parent.size.x - size.x - offset under Parent and
\* display.x - size.x - offset under Absolute.
C4_RightAnchor ==
    (Resolved /\ element.style.left = Auto /\ element.style.right # Auto) =>
        LET offset == size(element.style.right, info.display_size)
        IN  /\ element.style.position_setting = "Parent" =>
                   ret.position.x = info.position.x + info.size.x - ret.size.x - offset
            /\ element.style.position_setting = "Absolute" =>
                   ret.position.x = info.display_size.x - ret.size.x - offset

\* right = Px(10), width 100, parent of size (400, 400) at (0, 0): x = 290
C4_Witness ==
    /\ Resolved
    /\ element.style.position_setting = "Parent"
    /\ element.style.left = Auto
    /\ element.style.right = Px(px(10))
    /\ element.style.width = Px(px(100))
    /\ info.position = Vector2(0, 0)
    /\ info.size = Vector2(px(400), px(400))
    /\ ret.position.x = px(290)

\* C5 as stated: when top is set, position.y is
\* parent.origin.y + top.resolve(display) under Parent and top.resolve(display)
\* under Absolute.
C5_TopFromOrigin ==
    (Resolved /\ element.style.top # Auto) =>
        LET offset == size(element.style.top, info.display_size)
        IN  /\ element.style.position_setting = "Parent" =>
                   ret.position.y = info.position.y + offset
            /\ element.style.position_setting = "Absolute" =>
                   ret.position.y = offset

\* C5 as amended: when top is set, position.y is
\* parent.origin.y + parent.size.y - size.y - top.resolve(display) under Parent
\* and display.y - size.y - top.resolve(display) under Absolute: top is measured
\* downwards from the upper edge of a y-up box, as right is from the right edge.
C5_TopAnchor ==
    (Resolved /\ element.style.top # Auto) =>
        LET offset == size(element.style.top, info.display_size)
        IN  /\ element.style.position_setting = "Parent" =>
                   ret.position.y = info.position.y + info.size.y - ret.size.y - offset
            /\ element.style.position_setting = "Absolute" =>
                   ret.position.y = info.display_size.y - ret.size.y - offset

\* left = Px(10), top = Px(10), Parent, 100 x 100, parent of size (400, 400) at
\* (0, 0): resolved to (10, 290)
C5_Witness ==
    /\ Resolved
    /\ element.style.position_setting = "Parent"
    /\ element.style.left = Px(px(10))
    /\ element.style.top = Px(px(10))
    /\ element.style.width = Px(px(100))
    /\ element.style.height = Px(px(100))
    /\ info.position = Vector2(0, 0)
    /\ info.size = Vector2(px(400), px(400))
    /\ ret.position = Vector2(px(10), px(290))

\* C6 as stated: when bottom is set and top is not, position.y is
\* parent.origin.y + parent.size.y - size.y - offset under Parent and
\* display.y - size.y - offset under Absolute.
C6_BottomLikeRight ==
    (Resolved /\ element.style.top = Auto /\ element.style.bottom # Auto) =>
        LET offset == size(element.style.bottom, info.display_size)
        IN  /\ element.style.position_setting = "Parent" =>
                   ret.position.y = info.position.y + info.size.y - ret.size.y - offset
            /\ element.style.position_setting = "Absolute" =>
                   ret.position.y = info.display_size.y - ret.size.y - offset

\* C6 as amended: when bottom is set and top is not, position.y is
\* parent.origin.y + bottom.resolve(display) under Parent and
\* bottom.resolve(display) under Absolute.
C6_BottomAnchor ==
    (Resolved /\ element.style.top = Auto /\ element.style.bottom # Auto) =>
        LET offset == size(element.style.bottom, info.display_size)
        IN  /\ element.style.position_setting = "Parent" =>
                   ret.position.y = info.position.y + offset
            /\ element.style.position_setting = "Absolute" =>
                   ret.position.y = offset

\* bottom = Px(10), top Auto, Parent, in a parent whose origin is (200, 100):
\* resolved to y = 110
C6_Witness ==
    /\ Resolved
    /\ element.style.position_setting = "Parent"
    /\ element.style.top = Auto
    /\ element.style.bottom = Px(px(10))
    /\ info.position = Vector2(px(200), px(100))
    /\ ret.position.y = px(110)

\* the result of the call recorded in ret, for another element
SameAsFor(other) ==
    LET r == calculate_position_size(other, info)
    IN  r.position = ret.position /\ r.size = ret.size

\* C7: when left and right are both set the result is the result with right
\* reset to Auto, and when top and bottom are both set it is the result with
\* bottom reset to Auto: the value of the losing edge has no effect.
C7_Priority ==
    Resolved =>
        LET st == element.style
        IN  /\ (st.left # Auto /\ st.right # Auto) =>
                   \A v \in EdgeValues : SameAsFor([element EXCEPT !.style.right = v])
            /\ (st.top # Auto /\ st.bottom # Auto) =>
                   \A v \in EdgeValues : SameAsFor([element EXCEPT !.style.bottom = v])

\* an element with all four edges set, of different values, has been resolved
C7_Witness ==
    /\ Resolved
    /\ element.style.left = Px(px(10))
    /\ element.style.right = PercentWidth(25)
    /\ element.style.top = PercentHeight(25)
    /\ element.style.bottom = Px(px(10))

\* origins a parent box can have
Origins == {i.position : i \in LayoutInfos}

C9_SizeNonNegative ==
    Resolved => (ret.size.x >= 0 /\ ret.size.y >= 0)

\* C9 as amended: the resolved size is (width.resolve(display),
\* height.resolve(display)) without clamping, so size.x >= 0 and size.y >= 0 for
\* every style whose width and height are Auto or carry a value >= 0 (in a
\* display of size >= 0).
C9_SizeNonNegativeForNonNegativeStyle ==
    (/\ Resolved
     /\ element.style.width.v >= 0 /\ element.style.height.v >= 0
     /\ info.display_size.x >= 0 /\ info.display_size.y >= 0) =>
        (ret.size.x >= 0 /\ ret.size.y >= 0)

\* an element of Auto width and a percentage height has been resolved to a
\* size of (0, 300)
C9_Witness ==
    /\ Resolved
    /\ element.style.width = Auto
    /\ element.style.height = PercentHeight(50)
    /\ ret.size = Vector2(0, px(300))

----------------------------------------------------------------------------
(* Claims settled under EncodeSpec                                         *)

Encoded == ret.fn = "ui_instance"

\* q is the f32 quotient a / b: a fraction of positive denominator equal to
\* a / b when b is not 0, and NaN, inf or -inf as IEEE 754 has it when b is 0
IsQuotient(q, a, b) ==
    IF b # 0 THEN q[2] > 0 /\ q[1] * b = a * q[2]
    ELSE q = (IF a = 0 THEN <<0, 0>> ELSE IF a > 0 THEN <<1, 0>> ELSE <<-1, 0>>)

\* the larger side of the resolved box
LargerSide == IF ret.size.x >= ret.size.y THEN ret.size.x ELSE ret.size.y

\* C16: the encoded corner radius is round.resolve(display) divided by
\* max(size.x, size.y) and the encoded border radius is border.resolve(display)
\* divided by max(size.x, size.y), as f32 quotients.
C16_RadiusNormalization ==
    Encoded =>
        /\ IsQuotient(ret.data[7][1],
                      size(element.style.round, info.display_size), LargerSide)
        /\ IsQuotient(ret.data[7][2],
                      size(element.style.border, info.display_size), LargerSide)

\* round = Px(20) and border = Px(5) on a 100 x 50 element have been encoded as
\* 20/100 = 1/5 and 5/100 = 1/20
C16_Witness ==
    /\ Encoded
    /\ ret.size = Vector2(px(100), px(50))
    /\ element.style.round = Px(px(20))
    /\ element.style.border = Px(px(5))
    /\ ret.data[7][1] = <<1, 5>>
    /\ ret.data[7][2] = <<1, 20>>

\* a component of an instance that is NaN, inf or -inf
NotFinite(q) == q[2] = 0

\* C17 as stated: for an element resolved to size (0, 0) the encoded corner
\* radius and border radius are both 0, and no component of the instance
\* record is NaN or infinite.
C17_ZeroAreaGuard ==
    (Encoded /\ ret.size = Vector2(0, 0)) =>
        /\ ret.data[7][1] = Zero
        /\ ret.data[7][2] = Zero
        /\ \A j \in 1..7, i \in 1..4 : ~NotFinite(ret.data[j][i])

\* an element of the default size (0, 0) has been encoded with a corner radius
\* set: the corner radius written is inf, the border radius NaN
C17_Witness ==
    /\ Encoded
    /\ ret.size = Vector2(0, 0)
    /\ element.style.round = Px(px(20))
    /\ element.style.border = Auto
    /\ ret.data[7][1] = Inf
    /\ ret.data[7][2] = NaN

\* C18: the translation written, the last column of the model matrix, is
\* (2*(position.x + size.x/2)/display.x - 1, 2*(position.y + size.y/2)/display.y - 1,
\* layer, 1), with y not flipped, whatever the rotation; the third column, which
\* carries the scale 0 of z, is 0; and for an element that is not rotated the
\* first two columns are (size.x/display.x, 0, 0, 0) and (0, size.y/display.y, 0, 0).
C18_EncodedGeometry ==
    Encoded =>
        LET d == info.display_size
            m == ret.data
        IN  /\ IsQuotient(m[4][1], 2 * ret.position.x + ret.size.x - d.x, d.x)
            /\ IsQuotient(m[4][2], 2 * ret.position.y + ret.size.y - d.y, d.y)
            /\ IsQuotient(m[4][3], ret.layer, 100)
            /\ m[4][4] = <<1, 1>>
            /\ m[3] = << <<0, 1>>, <<0, 1>>, <<0, 1>>, <<0, 1>> >>
            /\ element.style.rotation = 0 =>
                   /\ IsQuotient(m[1][1], ret.size.x, d.x)
                   /\ IsQuotient(m[2][2], ret.size.y, d.y)
                   /\ \A i \in 2..4 : m[1][i] = <<0, 1>>
                   /\ \A i \in {1, 3, 4} : m[2][i] = <<0, 1>>

\* an element that covers the 800 x 600 window exactly has been encoded, not
\* rotated, at layer 0.45: translation (0, 0, 9/20) and scale (1, 1)
C18_Witness ==
    /\ Encoded
    /\ element.style.rotation = 0
    /\ ret.position = Vector2(0, 0)
    /\ ret.size = Vector2(px(800), px(600))
    /\ ret.layer = 45
    /\ ret.data[4] = << <<0, 1>>, <<0, 1>>, <<9, 20>>, <<1, 1>> >>
    /\ ret.data[1][1] = <<1, 1>>
    /\ ret.data[2][2] = <<1, 1>>

\* C19: the record written is 7 vec4: the four columns of the model matrix of
\* the element's Transform, then the fill colour as (r, g, b, a), then the
\* border colour as (r, g, b, a), then (corner radius, border radius, 0, 0).
C19_WireFormat ==
    Encoded =>
        LET m == ret.data
            st == element.style
            model == to_mat(ui_transform(element, info, ret.position, ret.size, ret.layer))
        IN  /\ DOMAIN m = 1..7
            /\ \A j \in 1..7 : DOMAIN m[j] = 1..4
            /\ \A j \in 1..4 : m[j] = model[j]
            /\ \A j \in 1..3 : m[j][4] = <<0, 1>>
            /\ m[4][4] = <<1, 1>>
            /\ m[5] = <<st.color.red, st.color.green, st.color.blue, st.color.alpha>>
            /\ m[6] = <<st.border_color.red, st.border_color.green,
                        st.border_color.blue, st.border_color.alpha>>
            /\ m[7][3] = <<0, 1>>
            /\ m[7][4] = <<0, 1>>

\* a red element with a border colour of four different components and both
\* radii set has been encoded
C19_Witness ==
    /\ Encoded
    /\ element.style.color = Color(One, Zero, Zero, One)
    /\ ret.data[5] = << <<1, 1>>, <<0, 1>>, <<0, 1>>, <<1, 1>> >>
    /\ ret.data[6] = << <<0, 1>>, <<1, 4>>, <<1, 1>>, <<1, 2>> >>
    /\ ret.data[7][1] # <<0, 1>>
    /\ ret.data[7][2] # <<0, 1>>
    /\ ~NotFinite(ret.data[7][1])

----------------------------------------------------------------------------
(* Claims settled under Spec                                               *)

\* the index in frame of the write for the element at path
FrameIndex(path) == CHOOSE k \in 1..Len(frame) : frame[k].path = path

\* C10: two styles that differ only in rotation resolve to the same
\* (position, size) for the element and for all of its descendants (and every
\* other element); of the instance records written, only the model matrix of
\* the element itself depends on its rotation.
C10_RotationKeepsBox ==
    frame # <<>> =>
        \A path \in Paths(elements), z \in Degrees :
            LET other == update_ui(RootInfo, set_rotation(elements, path, z), 50)
            IN  /\ Len(other) = Len(frame)
                /\ \A k \in 1..Len(frame) :
                       /\ other[k].path = frame[k].path
                       /\ other[k].position = frame[k].position
                       /\ other[k].size = frame[k].size
                       /\ \A j \in 5..7 : other[k].data[j] = frame[k].data[j]
                       /\ frame[k].path # path => other[k].data = frame[k].data

\* an update has resolved a 100 x 50 element turned by 90 degrees that has a
\* child, and its model matrix is not the one of the unturned element
C10_Witness ==
    /\ frame # <<>>
    /\ \E path \in Paths(elements) :
           LET e == ElementAt(elements, path)
               k == FrameIndex(path)
           IN  /\ e.style.rotation = px(90)
               /\ e.children # <<>>
               /\ frame[k].size = Vector2(px(100), px(50))
               /\ frame[k].data[1] #
                      update_ui(RootInfo, set_rotation(elements, path, 0), 50)[k].data[1]

\* C11: an update pass run on a tree that was left unchanged since the pass
\* before, with the same display size, makes the same writes, in the same
\* order, with identical instance records, and leaves every buffer as it was:
\* nothing the pass keeps between frames affects what it writes.
C11_Idempotence ==
    [][(op' = "idle" /\ engine_size' = engine_size) =>
           /\ frame' = frame
           /\ elements' = elements]_vars

\* a second pass has run on an unchanged tree that holds a nested element,
\* and every buffer holds the record that pass wrote
C11_Witness ==
    /\ op = "idle"
    /\ \E k \in 1..Len(frame) : Len(frame[k].path) = 2
    /\ \A k \in 1..Len(frame) : ElementAt(elements, frame[k].path).buffer = frame[k].data

\* a tree with the contents of every buffer put back to those of a new buffer:
\* what is left is the elements, their styles and the buffers they own
RECURSIVE Strip(_)
Strip(els) ==
    [i \in 1..Len(els) |->
        [els[i] EXCEPT !.buffer = ui_buffer, !.children = Strip(els[i].children)]]

\* the writes of the last update that went to the element at path
WritesTo(path) == {k \in 1..Len(frame) : frame[k].path = path}

\* C14: after every frame, changed tree or not, the update has made exactly one
\* write for every element of the tree, at any depth, and no other write; the
\* write is at offset 0 of the element's own buffer, of one record of 7 vec4,
\* which is the size ui_buffer gave the buffer; the buffer holds the record
\* afterwards, and in a frame in which the application left the tree alone the
\* tree is still the same elements with the same buffers, contents aside.
C14_PerElementWrite ==
    [][/\ \A path \in Paths(elements') : Cardinality(WritesTo(path)') = 1
       /\ Len(frame') = Cardinality(Paths(elements'))
       /\ \A k \in 1..Len(frame') :
              /\ frame'[k].path \in Paths(elements')
              /\ frame'[k].offset = 0
              /\ DOMAIN frame'[k].data = DOMAIN ui_buffer
              /\ \A j \in DOMAIN ui_buffer :
                     DOMAIN frame'[k].data[j] = DOMAIN ui_buffer[j]
              /\ ElementAt(elements', frame'[k].path).buffer = frame'[k].data
       /\ op' = "idle" => Strip(elements') = Strip(elements)]_tree_vars

\* a frame that changed a style has written the three elements of a chain
\* parent, child, grandchild, each once, and their buffers hold the records
C14_Witness ==
    /\ op = "set_style"
    /\ Len(frame) = 3
    /\ \A k \in 1..3 : Len(frame[k].path) = k
    /\ \A k \in 1..3 : ElementAt(elements, frame[k].path).buffer = frame[k].data
    /\ ui_buffer \notin {frame[k].data : k \in 1..3}

\* path is the element at root or one of its descendants
InSubtree(root, path) ==
    /\ Len(path) >= Len(root)
    /\ \A k \in 1..Len(root) : path[k] = root[k]

\* where the element at path is found after the element at gone was removed:
\* the later siblings of gone, and their descendants, move down by one
Moved(path, gone) ==
    LET n == Len(gone)
    IN  IF /\ Len(path) >= n
           /\ \A k \in 1..(n - 1) : path[k] = gone[k]
           /\ path[n] > gone[n]
        THEN [path EXCEPT ![n] = @ - 1]
        ELSE path

\* the paths of a sequence of writes or draws
PathsOf(log) == {log[k].path : k \in 1..Len(log)}

\* C15: after every frame, whatever was appended or removed, the update has
\* written and the render has drawn each element of the tree as it is now, once,
\* and nothing else; and in a frame that removed an element, the elements
\* written and drawn are exactly the elements of the tree before that are
\* neither the removed element nor in its subtree, each with the style it had.
C15_ReachableOnly ==
    [][/\ PathsOf(frame') = Paths(elements')
       /\ PathsOf(draws') = Paths(elements')
       /\ Len(frame') = Cardinality(Paths(elements'))
       /\ Len(draws') = Cardinality(Paths(elements'))
       /\ op' \in {"remove", "remove_subtree"} =>
              \E gone \in Paths(elements) :
                  LET kept == {q \in Paths(elements) : ~InSubtree(gone, q)}
                  IN  /\ PathsOf(frame') = {Moved(q, gone) : q \in kept}
                      /\ PathsOf(draws') = {Moved(q, gone) : q \in kept}
                      /\ Len(frame') = Cardinality(kept)
                      /\ Len(draws') = Cardinality(kept)
                      /\ \A q \in kept :
                             ElementAt(elements', Moved(q, gone)).style
                                 = ElementAt(elements, q).style]_tree_vars

\* an element that had a child has been removed, and the one element that is
\* left is the only one written and drawn
C15_Witness ==
    /\ op = "remove_subtree"
    /\ Len(elements) = 1
    /\ PathsOf(frame) = {<<1>>}
    /\ PathsOf(draws) = {<<1>>}
    /\ Len(frame) = 1
    /\ Len(draws) = 1
    /\ draws[1].instance = frame[1].data

\* the depth of the element a write went to: 0 for an element of
\* UIEngine.elements
Depth(w) == Len(w.path) - 1

\* C20: every element is encoded at layer 0.5 - 0.05 * d, d being its depth in
\* the tree (0 for the top-level elements), and that layer is the z written in
\* its record; so a child is one step of 0.05 below its parent, an element is
\* strictly below each of its ancestors, and siblings share a layer.
C20_DepthOrdering ==
    \A k \in 1..Len(frame) :
        LET w == frame[k]
        IN  /\ w.layer = 50 - 5 * Depth(w)
            /\ w.data[4][3][1] * 100 = w.layer * w.data[4][3][2]
            /\ w.data[4][3][2] > 0
            /\ \A j \in 1..Len(frame) :
                   LET a == frame[j]
                   IN  /\ (a.path # w.path /\ InSubtree(a.path, w.path)) => w.layer < a.layer
                       /\ (Len(a.path) = Len(w.path)
                           /\ SubSeq(a.path, 1, Depth(a)) = SubSeq(w.path, 1, Depth(w)))
                              => a.layer = w.layer
                       /\ a.path = SubSeq(w.path, 1, Depth(w)) => w.layer = a.layer - 5

\* a parent, its child and its grandchild have been encoded at z = 1/2, 9/20
\* and 2/5
C20_Witness ==
    /\ Len(frame) = 3
    /\ \A k \in 1..3 : Len(frame[k].path) = k
    /\ frame[1].data[4][3] = <<1, 2>>
    /\ frame[2].data[4][3] = <<9, 20>>
    /\ frame[3].data[4][3] = <<2, 5>>

----------------------------------------------------------------------------
(* Claims settled under CanvasSpec                                         *)

\* C12: a call of UICanvas::update whose contents are as long as the stored
\* count creates no buffer: its only call is queue.write_buffer on the buffer
\* the canvas already had, at offset 0, with the contents, after which that same
\* buffer holds the contents and the count is unchanged.
C12_BufferReuse ==
    [][(calls' # <<>> /\ Len(calls'[1].data) = canvas.cur_size) =>
           /\ created' = created
           /\ Len(calls') = 1
           /\ calls'[1].fn = "queue.write_buffer"
           /\ calls'[1].buffer = canvas.buffer.id
           /\ calls'[1].offset = 0
           /\ canvas'.buffer.id = canvas.buffer.id
           /\ canvas'.buffer.size = canvas.buffer.size
           /\ canvas'.buffer.contents = calls'[1].data
           /\ canvas'.cur_size = canvas.cur_size]_canvas_vars

\* the canvas still has the buffer of its constructor, which has been
\* overwritten in place with two instances that differ
C12_Witness ==
    /\ created = 1
    /\ canvas.buffer.id = 1
    /\ Len(calls) = 1
    /\ calls[1].fn = "queue.write_buffer"
    /\ Len(calls[1].data) = 2
    /\ calls[1].data[1] # calls[1].data[2]
    /\ canvas.buffer.contents = calls[1].data

\* C13: a call of UICanvas::update whose contents are not as long as the stored
\* count replaces the buffer by a newly created one that has exactly the size
\* of the contents and holds them, and stores the new length as the count.
C13_BufferReplace ==
    [][(calls' # <<>> /\ Len(calls'[1].data) # canvas.cur_size) =>
           /\ created' = created + 1
           /\ Len(calls') = 1
           /\ calls'[1].fn = "device.create_buffer_init"
           /\ canvas'.buffer.id # canvas.buffer.id
           /\ canvas'.buffer.id = calls'[1].buffer
           /\ canvas'.buffer.size = Len(calls'[1].data)
           /\ canvas'.buffer.contents = calls'[1].data
           /\ canvas'.cur_size = Len(calls'[1].data)]_canvas_vars

\* a canvas that held a different number of instances now has a second
\* buffer, of one instance
C13_Witness ==
    /\ created = 2
    /\ canvas.buffer.id = 2
    /\ calls[1].fn = "device.create_buffer_init"
    /\ canvas.cur_size = 1
    /\ canvas.buffer.size = 1
    /\ canvas.buffer.contents = calls[1].data

----------------------------------------------------------------------------
(* Claims settled under Spec: the order of the passes                      *)

\* path p comes before path q in pre-order: p is an ancestor of q, or at the
\* first index where they differ p names the earlier child
PreOrderBefore(p, q) ==
    \/ Len(p) < Len(q) /\ SubSeq(q, 1, Len(p)) = p
    \/ \E i \in 1..Len(p) :
           /\ i <= Len(q)
           /\ SubSeq(p, 1, i - 1) = SubSeq(q, 1, i - 1)
           /\ p[i] < q[i]

\* C21: render issues exactly one indexed draw, of instance range 1, per
\* element of the tree, in pre-order (an element before its descendants, a
\* whole subtree before the next sibling, siblings in the order of their
\* insertion, which is their index), and the update pass writes the elements
\* in the same order
C21_PreOrder ==
    /\ Len(draws) = Cardinality(Paths(elements))
    /\ PathsOf(draws) = Paths(elements)
    /\ \A k \in 1..Len(draws) : draws[k].instances[2] - draws[k].instances[1] = 1
    /\ \A j, k \in 1..Len(draws) :
           j < k => PreOrderBefore(draws[j].path, draws[k].path)
    /\ Len(frame) = Len(draws)
    /\ \A k \in 1..Len(frame) : frame[k].path = draws[k].path

\* C21 witness: an element with a child and a later sibling; the child is
\* drawn, and written, between the two
C21_Witness ==
    /\ Paths(elements) = {<<1>>, <<1, 1>>, <<2>>}
    /\ [k \in 1..Len(draws) |-> draws[k].path] = << <<1>>, <<1, 1>>, <<2>> >>
    /\ [k \in 1..Len(frame) |-> frame[k].path] = << <<1>>, <<1, 1>>, <<2>> >>

----------------------------------------------------------------------------
(* Claims settled under RenderSpec                                         *)

\* the element at path is an Image whose handle is not in the texture cache
MissingTexture(path) ==
    LET element_ == ElementAt(elements, path)
    IN  /\ element_.info.kind = "Image"
        /\ element_.info.texture.hash \notin DOMAIN texture_cache

\* C22: a render panics exactly when some Image element has a handle that is
\* not in the texture cache; the elements drawn are those before the first
\* such element in traversal order, so neither it nor a later element is
\* drawn; a Container or a Text is drawn with the default blank texture
\* whatever the cache holds, and an Image with the texture of its handle
C22_MissingHandlePanics ==
    op = "render" =>
        /\ panicked <=> \E p \in Paths(elements) : MissingTexture(p)
        /\ \A p \in Paths(elements) :
               p \in PathsOf(draws) <=>
                   \A q \in Paths(elements) :
                       MissingTexture(q) => q # p /\ ~PreOrderBefore(q, p)
        /\ \A k \in 1..Len(draws) :
               LET element_ == ElementAt(elements, draws[k].path)
               IN  IF element_.info.kind = "Image"
                   THEN draws[k].texture = texture_cache[element_.info.texture.hash]
                   ELSE draws[k].texture = Texture_from_bytes("empty.png")

\* C22 witness: a container, then an image whose handle is not in the cache,
\* then a text; the render panicked with the container alone drawn
C22_Witness ==
    /\ op = "render"
    /\ panicked
    /\ Len(elements) = 3
    /\ elements[1].info.kind = "Container"
    /\ MissingTexture(<<2>>)
    /\ elements[3].info.kind = "Text"
    /\ PathsOf(draws) = {<<1>>}

----------------------------------------------------------------------------
(* Claims settled under PassSpec                                           *)

\* the path of the parent of the element at path
Parent(path) == SubSeq(path, 1, Len(path) - 1)

\* the write of the last update pass to the element at path
WriteOf(path) == frame[FrameIndex(path)]

\* some proper ancestor of the element at path was resolved to the size (0, 0)
UnderEmpty(path) ==
    \E n \in 1..(Len(path) - 1) : WriteOf(SubSeq(path, 1, n)).size = Vector2(0, 0)

\* the element has an edge set on each axis
AnchoredBothWays(style) ==
    /\ left_set(style) \/ right_set(style)
    /\ top_set(style) \/ bottom_set(style)

\* the boxes a parent may have in the window
ParentBoxes ==
    {UIRenderInfo(i.position, i.size, Vector2(engine_size.x, engine_size.y)) : i \in LayoutInfos}

\* C23: every element is written once and drawn once, also one that was
\* resolved to the size (0, 0), whose buffer holds the instance written, and
\* every one below such an element; an element below one of size (0, 0) is
\* resolved against its own parent and written with the instance of that box
\* one layer step below its parent; an Absolute element below one with an
\* edge set on each axis is at the position it has under any parent
C23_NoEarlyExit ==
    op = "idle" =>
        /\ \A p \in Paths(elements) :
               /\ Cardinality(WritesTo(p)) = 1
               /\ Cardinality({k \in 1..Len(draws) : draws[k].path = p}) = 1
               /\ ElementAt(elements, p).buffer = WriteOf(p).data
        /\ \A p \in Paths(elements) :
               UnderEmpty(p) =>
                   LET element_ == ElementAt(elements, p)
                       up == WriteOf(Parent(p))
                       box == UIRenderInfo(up.position, up.size,
                                           Vector2(engine_size.x, engine_size.y))
                       r == calculate_position_size(element_, box)
                       w == WriteOf(p)
                   IN  /\ w.position = r.position /\ w.size = r.size
                       /\ w.layer = up.layer - 5
                       /\ w.data = ui_instance(element_, box, r.position, r.size, w.layer)
                       /\ (element_.style.position_setting = "Absolute"
                               /\ AnchoredBothWays(element_.style)) =>
                              \A other \in ParentBoxes :
                                  w.position = calculate_position_size(element_, other).position

\* C23 witness: a top-level element of no area with the anchored Absolute box
\* as its child and a grandchild below that; the child is at (690, 150), as
\* everywhere in an 800 x 600 window, one layer step below its parent
C23_Witness ==
    /\ op = "idle"
    /\ Paths(elements) = {<<1>>, <<1, 1>>, <<1, 1, 1>>}
    /\ WriteOf(<<1>>).size = Vector2(0, 0)
    /\ elements[1].children[1].style.position_setting = "Absolute"
    /\ WriteOf(<<1, 1>>).position = Vector2(px(690), px(150))
    /\ WriteOf(<<1, 1>>).layer = 45
    /\ WriteOf(<<1, 1, 1>>).layer = 40
    /\ PathsOf(draws) = Paths(elements)

\* C24: every top-level element is resolved against the box at (0, 0) of the
\* size of the window, and every other element against the box its parent
\* was resolved to, both with the size of the window as display size; so at
\* any depth a percentage of a width, a height or an offset is a percentage
\* of the window, whatever the box of the parent
C24_TopDownPropagation ==
    op = "idle" =>
        \A p \in Paths(elements) :
            LET element_ == ElementAt(elements, p)
                style == element_.style
                display == Vector2(engine_size.x, engine_size.y)
                origin == IF Len(p) = 1 THEN Vector2(0, 0) ELSE WriteOf(Parent(p)).position
                box == IF Len(p) = 1 THEN UIRenderInfo(Vector2(0, 0), display, display)
                       ELSE UIRenderInfo(origin, WriteOf(Parent(p)).size, display)
                r == calculate_position_size(element_, box)
                w == WriteOf(p)
            IN  /\ w.position = r.position /\ w.size = r.size
                /\ style.width.kind = "PercentWidth" =>
                       w.size.x = (style.width.v * engine_size.x) \div 100
                /\ style.height.kind = "PercentHeight" =>
                       w.size.y = (style.height.v * engine_size.y) \div 100
                /\ (style.left.kind = "PercentWidth" /\ style.position_setting = "Parent") =>
                       w.position.x = origin.x + (style.left.v * engine_size.x) \div 100

\* C24 witness: the percent box as the child of the red 400 x 300 box at
\* (10, 290): it is 200 x 300, a quarter and a half of the 800 x 600 window,
\* and 200 from the left of its parent
C24_Witness ==
    /\ op = "idle"
    /\ <<1, 1>> \in Paths(elements)
    /\ WriteOf(<<1>>).position = Vector2(px(10), px(290))
    /\ WriteOf(<<1>>).size = Vector2(px(400), px(300))
    /\ elements[1].children[1].style.width = PercentWidth(25)
    /\ WriteOf(<<1, 1>>).size = Vector2(px(200), px(300))
    /\ WriteOf(<<1, 1>>).position.x = px(210)

----------------------------------------------------------------------------
(* Claims settled under CanvasSpec: the count of the canvas                *)

\* C25: after new_with_contents and any updates, cur_size is the number of
\* records the buffer of the canvas was created for and the length of the
\* contents passed last; the last call wrote within the buffer, and the
\* buffer holds exactly those contents
C25_CountIsBufferSize ==
    /\ canvas.cur_size = canvas.buffer.size
    /\ canvas.cur_size = Len(calls[1].data)
    /\ calls[1].buffer = canvas.buffer.id
    /\ calls[1].offset + Len(calls[1].data) <= canvas.buffer.size
    /\ canvas.buffer.contents = calls[1].data

\* C25 witness: a canvas whose third buffer, created for two records, has
\* just been written in place with two records
C25_Witness ==
    /\ created = 3
    /\ canvas.buffer.id = 3
    /\ calls[1].fn = "queue.write_buffer"
    /\ canvas.cur_size = 2
    /\ canvas.buffer.size = 2
    /\ Len(calls[1].data) = 2

----------------------------------------------------------------------------
(* Claims settled under InputSpec and AppSpec                              *)

\* none of the getters of self reports a key or a button as just pressed or
\* just released
NothingJust(self) ==
    /\ \A key \in KeyCodes : ~key_just_pressed(self, key) /\ ~key_just_released(self, key)
    /\ \A button \in MouseButtons :
           ~mouse_button_just_pressed(self, button) /\ ~mouse_button_just_released(self, button)

\* C26: after a reset no key and no button is just pressed or just released
\* and the scroll delta reads (0, 0), while the keys and buttons that are down
\* and the mouse position are what they were; and a key that is just pressed
\* after a call was so before it, unless the call handed in its Pressed event
C26_ResetPreparesFrame ==
    [][/\ app_calls'[1].fn = "reset" =>
              /\ NothingJust(inputs')
              /\ mouse_scroll_delta(inputs') = Point2(0, 0)
              /\ \A key \in KeyCodes : is_key_down(inputs', key) = is_key_down(inputs, key)
              /\ \A button \in MouseButtons :
                     is_mouse_button_down(inputs', button) = is_mouse_button_down(inputs, button)
              /\ mouse_position(inputs') = mouse_position(inputs)
       /\ \A key \in KeyCodes :
              key_just_pressed(inputs', key) =>
                  \/ key_just_pressed(inputs, key) /\ app_calls'[1].fn # "reset"
                  \/ app_calls'[1] = [fn |-> "handle_input", input |-> KeyInput(key, "Pressed")]
      ]_vars

\* C26 witness: after a reset, a key that is down (its Pressed event came
\* before the reset) is no longer just pressed; the mouse has a position
C26_Witness ==
    /\ app_calls[1].fn = "reset"
    /\ is_key_down(inputs, "KeyW")
    /\ ~key_just_pressed(inputs, "KeyW")
    /\ mouse_position(inputs) = Some(Point2(px(400), px(300)))
    /\ mouse_scroll_delta(inputs) = Point2(0, 0)

\* C27 as stated: every App::update ends with next_frame() and
\* inputs.reset(), also when the surface texture is not acquired, so that
\* after it no key or button is just pressed or just released
C27_UpdateEndsFrame ==
    [][app_calls'[1].fn = "update" =>
           LET made == app_calls'[1].calls
           IN  /\ Len(made) >= 2
               /\ contains(made, "next_frame")
               /\ made[Len(made)] = "inputs.reset"
               /\ NothingJust(inputs')
      ]_vars

\* C27 witness: an update has returned, the surface texture not acquired,
\* and a key pressed before the call is still just pressed
C27_Witness ==
    /\ app_calls[1].fn = "update"
    /\ ~contains(app_calls[1].calls, "inputs.reset")
    /\ key_just_pressed(inputs, "KeyW")

----------------------------------------------------------------------------
(* Claims settled under ResourceSpec                                       *)

\* the index of the first load of the path of the k-th load
FirstLoad(k) == CHOOSE j \in 1..k : loads[j].path = loads[k].path /\
                                    \A i \in 1..(j - 1) : loads[i].path # loads[k].path

\* C28 as stated: the load function runs in the first load of a path and in
\* no later load of that path, a later load returns the handle of the first,
\* and get with that handle returns the resource the first load stored
C28_LoadOnce ==
    \A k \in 1..Len(loads) :
        /\ loads[k].ran <=> FirstLoad(k) = k
        /\ loads[k].handle = loads[FirstLoad(k)].handle
        /\ get(texture_cache, loads[k].handle)
               = Some(Texture_from_bytes(loads[FirstLoad(k)].bytes))

\* C28 witness: "tree.png" was loaded, and then "rock.png", a path of the same
\* hash, for the first time: its load function did not run, and its handle
\* gets the texture of "tree.png"
C28_Witness ==
    /\ Len(loads) = 2
    /\ loads[1].path = "tree.png" /\ loads[1].bytes = "day" /\ loads[1].ran
    /\ loads[2].path = "rock.png" /\ loads[2].bytes = "night" /\ ~loads[2].ran
    /\ get(texture_cache, loads[2].handle) = Some(Texture_from_bytes("day"))

----------------------------------------------------------------------------
(* Claims settled under LightSpec                                          *)

\* the calls that mark the engine dirty
Marking == {"add_light", "remove_light", "clear_lights", "mark_dirty"}

\* the k-th call on the engine is an update, and some call since the update
\* before it (or since LightEngine::new) marked the engine dirty
MarkedBefore(k) ==
    \E j \in 1..(k - 1) :
        /\ light_log[j].fn \in Marking
        /\ \A i \in (j + 1)..(k - 1) : light_log[i].fn # "update"

\* the calls hold a write of the count buffer and a write, or the creation,
\* of the light buffer
Rewritten(made) ==
    /\ \E c \in 1..Len(made) : made[c].fn = "queue.write_buffer" /\ made[c].buffer = 2
    /\ \E c \in 1..Len(made) :
           /\ made[c].fn \in {"queue.write_buffer", "device.create_buffer_init"}
           /\ made[c].buffer \notin {2, 3}

\* C29 as stated: an update after add_light, remove_light, clear_lights or
\* mark_dirty rewrites the light buffers, and an update with no such call
\* since the update before it makes no device or queue call
C29_DirtyFlagConsumed ==
    \A k \in 1..Len(light_log) :
        light_log[k].fn = "update" =>
            IF MarkedBefore(k) THEN Rewritten(light_log[k].calls)
            ELSE light_log[k].calls = <<>>

\* C29 witness: add_light, an update that creates the light buffer for the
\* one light, and an update right after it that writes the three buffers
\* again
C29_Witness ==
    /\ Len(light_log) = 3
    /\ light_log[1].fn = "add_light"
    /\ light_log[2].fn = "update" /\ Len(light_log[2].calls) = 4
    /\ light_log[3].fn = "update" /\ Len(light_log[3].calls) = 3
    /\ light_engine.dirty

----------------------------------------------------------------------------
(* Claims settled under WorldSpec                                          *)

\* the subtree the last call added or removed, as a list of one node
Moving == <<node_call.child>>

\* the place of the callback for the node of the given id among the
\* callbacks of the last call
CallbackIndex(id) ==
    CHOOSE c \in 1..Len(node_call.callbacks) : node_call.callbacks[c].node = id

\* the callbacks of the last call are one callback fn for each node of the
\* subtree at the paths given, and none else, a node before its descendants
OncePerNode(fn, paths) ==
    LET made == node_call.callbacks
        ids == {ElementAt(Moving, p).id : p \in paths}
    IN  /\ Len(made) = Cardinality(ids)
        /\ {made[c].node : c \in 1..Len(made)} = ids
        /\ \A c \in 1..Len(made) : made[c].fn = fn
        /\ \A p, q \in paths :
               (Len(p) < Len(q) /\ SubSeq(q, 1, Len(p)) = p) =>
                   CallbackIndex(ElementAt(Moving, p).id) < CallbackIndex(ElementAt(Moving, q).id)

\* the ids of the nodes the application owns, with their subtrees
WorldIds == {ElementAt(world, p).id : p \in Paths(world)}

\* whatever was REMOVED was ADDED before
RemovedWasAdded ==
    \A k \in 1..Len(node_log) :
        node_log[k].fn = "REMOVED" =>
            \E j \in 1..(k - 1) : node_log[j] = [fn |-> "ADDED", node |-> node_log[k].node]

\* after add_child the child is the last child of its parent, and after
\* remove_child the node removed is in no tree
ChildMoved ==
    /\ node_call.fn = "add_child" =>
           LET children == ElementAt(world, node_call.parent).children
           IN  children[Len(children)] = node_call.child
    /\ node_call.fn = "remove_child" => node_call.child.id \notin WorldIds

WithCallbacks == {p \in Paths(Moving) : ElementAt(Moving, p).component # "Empty"}

====


